---------------------------- MODULE Spec2Model ----------------------------
(***************************************************************************)
(* Model of the bv command orchestrator (src/bv/services/commands.py), its *)
(* configuration model (src/bv/project/config.py) and the environment      *)
(* manager (src/bv/venv/manager.py).                                       *)
(*                                                                         *)
(* Strings are sequences of tokens (a numeral, ".", "-", ":", a word), so  *)
(* that formatting (f"{name}-{version}.bvpackage"), parsing                *)
(* (SEMVER_PATTERN, command.split(":")) and Path.with_suffix are computed  *)
(* on the text and not assumed.  A path is a sequence of segments, each a  *)
(* token string.                                                           *)
(***************************************************************************)
EXTENDS Integers, Sequences, FiniteSets, TLC

(***************************************************************************)
(* Bounds of the model.                                                    *)
(***************************************************************************)
\* largest version component a publish may reach (bump_semver has no cap)
MaxVer == 2
\* number of commands one behaviour runs one after the other
MaxCmds == 1
\* number of I/O operations that fail in one behaviour
MaxFaults == 2

\* Python's None where a string is expected
None == "<None>"
\* a file that may be absent is a sequence of at most one content
NoFile == <<>>

(***************************************************************************)
(* Text.                                                                   *)
(***************************************************************************)
Numerals == <<"0", "1", "2", "3", "4">>

NumStr(n) == Numerals[n + 1]

IsNumeral(tok) == \E i \in 1..Len(Numerals) : Numerals[i] = tok

NumVal(tok) == (CHOOSE i \in 1..Len(Numerals) : Numerals[i] = tok) - 1

\* f"{major}.{minor}.{patch}"
VerStr(major, minor, patch) ==
    <<NumStr(major), ".", NumStr(minor), ".", NumStr(patch)>>

\* the index of the first TRUE of a sequence of booleans, 0 if none
FirstTrue(flags) ==
    IF \E i \in 1..Len(flags) : flags[i]
    THEN CHOOSE i \in 1..Len(flags) :
             flags[i] /\ \A j \in 1..(i - 1) : ~flags[j]
    ELSE 0

\* the index of the first occurrence of x in s, 0 if none (str.find, list.index)
FirstIndex(s, x) == FirstTrue([i \in 1..Len(s) |-> s[i] = x])

\* the words of a prerelease or build suffix that the model uses
SuffixWords == {"alpha", "b7"}

\* [0-9A-Za-z-.]+ : one token or more of the class
SuffixText(toks) ==
    /\ toks # <<>>
    /\ \A i \in 1..Len(toks) :
          IsNumeral(toks[i]) \/ toks[i] \in SuffixWords \cup {"-", "."}

\* SEMVER_PATTERN.match: MAJOR.MINOR.PATCH, then an optional "-" prerelease
\* and an optional "+" build, up to the end of the string; "$" also matches
\* before a newline that ends the string
SemverMatch(v) ==
    LET text == IF v # <<>> /\ v[Len(v)] = "\n" THEN SubSeq(v, 1, Len(v) - 1)
                ELSE v
        rest == SubSeq(text, 6, Len(text))
        plus == FirstIndex(rest, "+")
        prerelease == IF plus = 0 THEN rest ELSE SubSeq(rest, 1, plus - 1)
        build == IF plus = 0 THEN <<>> ELSE SubSeq(rest, plus + 1, Len(rest))
    IN  /\ Len(text) >= 5
        /\ IsNumeral(text[1]) /\ text[2] = "." /\ IsNumeral(text[3])
        /\ text[4] = "." /\ IsNumeral(text[5])
        /\ prerelease # <<>> =>
              prerelease[1] = "-" /\ SuffixText(Tail(prerelease))
        /\ plus # 0 => SuffixText(build)

Parts == {"major", "minor", "patch"}

\* a mutant of bump_semver: a major bump resets minor and patch but leaves
\* the major number as it is
bump_semver_resets(version, part) ==
    IF version = <<None>> \/ ~SemverMatch(version)
    THEN [ok |-> FALSE, err |-> "Invalid SemVer"]
    ELSE LET major == NumVal(version[1])
             minor == NumVal(version[3])
             patch == NumVal(version[5])
         IN  CASE part = "major" -> [ok |-> TRUE, v |-> VerStr(major, 0, 0)]
               [] part = "minor" -> [ok |-> TRUE, v |-> VerStr(major, minor + 1, 0)]
               [] part = "patch" -> [ok |-> TRUE, v |-> VerStr(major, minor, patch + 1)]
               [] OTHER -> [ok |-> FALSE, err |-> "part must be one of"]

\* version is <<None>> for None (version or "")
bump_semver(version, part) ==
    IF version = <<None>> \/ ~SemverMatch(version)
    THEN [ok |-> FALSE, err |-> "Invalid SemVer"]
    ELSE LET major == NumVal(version[1])
             minor == NumVal(version[3])
             patch == NumVal(version[5])
         IN  CASE part = "major" -> [ok |-> TRUE, v |-> VerStr(major + 1, 0, 0)]
               [] part = "minor" -> [ok |-> TRUE, v |-> VerStr(major, minor + 1, 0)]
               [] part = "patch" -> [ok |-> TRUE, v |-> VerStr(major, minor, patch + 1)]
               [] OTHER -> [ok |-> FALSE, err |-> "part must be one of"]

\* the bump stays inside the numerals of the model
BumpInBounds(version, part) ==
    /\ SemverMatch(version)
    /\ CASE part = "major" -> NumVal(version[1]) < MaxVer
         [] part = "minor" -> NumVal(version[3]) < MaxVer
         [] OTHER -> NumVal(version[5]) < MaxVer

(***************************************************************************)
(* Configuration model: the descriptor on disk is the parsed YAML mapping  *)
(* [name, version, entrypoints, venv_dir, orchestrator]; a missing key is  *)
(* None (<<None>> for the version, a token string).  An entry is           *)
(* [name, command, workdir, default]; a missing name or workdir is "", a   *)
(* missing command is <<>>.                                                *)
(***************************************************************************)
\* directories that exist under the project root besides dist and the venv
WorkdirsOnDisk == {"jobs"}

\* EntryPoint.validate: the messages it raises with, <<>> if it passes
EntryErrors(e) ==
    (IF e.name = "" THEN <<"entrypoint 'name' is required">> ELSE <<>>)
    \o (IF e.command = <<>> THEN <<"entrypoint is missing 'command'">> ELSE <<>>)

EntryBad(e) == EntryErrors(e) # <<>>

DefaultCount(eps) == Cardinality({i \in 1..Len(eps) : eps[i].default})

\* the workdir messages of ProjectConfig.validate, in entry order
RECURSIVE WorkdirErrors(_, _)
WorkdirErrors(eps, root) ==
    IF eps = <<>> THEN <<>>
    ELSE (IF Head(eps).workdir # "" /\ root # None
             /\ Head(eps).workdir \notin WorkdirsOnDisk
          THEN <<"workdir does not exist">> ELSE <<>>)
         \o WorkdirErrors(Tail(eps), root)

\* a mutant of ValidateErrors: several default entrypoints pass
ValidateErrors_manydefaults(cfg, root) ==
    LET base ==
            (IF cfg.name = "" THEN <<"project.name is required">> ELSE <<>>)
            \o (IF cfg.version = <<>> THEN <<"project.version is required">>
                ELSE IF ~SemverMatch(cfg.version)
                     THEN <<"project.version must be SemVer">> ELSE <<>>)
        bad == FirstTrue([i \in 1..Len(cfg.entrypoints) |->
                             EntryBad(cfg.entrypoints[i])])
    IN  IF cfg.entrypoints = <<>>
        THEN base \o <<"project.entrypoints must include at least one entrypoint">>
        ELSE IF bad # 0 THEN EntryErrors(cfg.entrypoints[bad])
        ELSE base \o WorkdirErrors(cfg.entrypoints, root)
             \o (IF DefaultCount(cfg.entrypoints) = 0
                 THEN <<"one entrypoint must be marked default">> ELSE <<>>)

\* ProjectConfig.validate: the messages of the ValueError it raises, <<>> if
\* it passes.  entry.validate() raises from inside the loop, so the first
\* invalid entry's messages are the whole failure.
ValidateErrors(cfg, root) ==
    LET base ==
            (IF cfg.name = "" THEN <<"project.name is required">> ELSE <<>>)
            \o (IF cfg.version = <<>> THEN <<"project.version is required">>
                ELSE IF ~SemverMatch(cfg.version)
                     THEN <<"project.version must be SemVer">> ELSE <<>>)
        bad == FirstTrue([i \in 1..Len(cfg.entrypoints) |->
                             EntryBad(cfg.entrypoints[i])])
        n == DefaultCount(cfg.entrypoints)
    IN  IF cfg.entrypoints = <<>>
        THEN base \o <<"project.entrypoints must include at least one entrypoint">>
        ELSE IF bad # 0 THEN EntryErrors(cfg.entrypoints[bad])
        ELSE base \o WorkdirErrors(cfg.entrypoints, root)
             \o (IF n = 0 THEN <<"one entrypoint must be marked default">>
                 ELSE IF n > 1 THEN <<"only one entrypoint may be marked default">>
                 ELSE <<>>)

\* EntryPoint.to_mapping and ProjectConfig.to_mapping: the mapping that is
\* dumped; it has the four keys of ProjectConfig and no other
ToMapping(cfg) ==
    [name |-> cfg.name, version |-> cfg.version,
     entrypoints |-> cfg.entrypoints, venv_dir |-> cfg.venv_dir,
     orchestrator |-> None]

\* ProjectConfigLoader.load
Load(raw) ==
    IF raw = NoFile THEN [ok |-> FALSE, err |-> <<"Config not found">>]
    ELSE IF raw[1].name = None
         THEN [ok |-> FALSE, err |-> <<"Missing required field 'name'">>]
    ELSE IF raw[1].version = <<None>>
         THEN [ok |-> FALSE, err |-> <<"Missing required field 'version'">>]
    ELSE LET cfg == [name |-> raw[1].name, version |-> raw[1].version,
                     entrypoints |-> raw[1].entrypoints,
                     venv_dir |-> IF raw[1].venv_dir = None THEN ".venv"
                                  ELSE raw[1].venv_dir]
             errs == ValidateErrors(cfg, None)
         IN  IF errs # <<>> THEN [ok |-> FALSE, err |-> errs]
             ELSE [ok |-> TRUE, cfg |-> cfg]

(***************************************************************************)
(* Paths.  A file name is a token string; Path.suffix and with_suffix work *)
(* on the last "." of the name.                                            *)
(***************************************************************************)
LastDot(name) ==
    IF \E i \in 1..Len(name) : name[i] = "."
    THEN CHOOSE i \in 1..Len(name) :
             name[i] = "." /\ \A j \in (i + 1)..Len(name) : name[j] # "."
    ELSE 0

\* PurePath.suffix
Suffix(name) ==
    LET i == LastDot(name)
    IN  IF 1 < i /\ i < Len(name) THEN SubSeq(name, i, Len(name)) ELSE <<>>

\* PurePath.with_suffix
WithSuffix(name, suf) ==
    SubSeq(name, 1, Len(name) - Len(Suffix(name))) \o suf

BvExt == <<".", "bvpackage">>

TmpExt == <<".", "tmp">>

\* f"{name}-{version}.bvpackage"
PkgFileName(name, version) == <<name, "-">> \o version \o BvExt

\* Path.resolve of a path given relative to the working directory
Cwd == << <<"/">>, <<"work">> >>

Resolve(p) == IF p # <<>> /\ p[1] = <<"/">> THEN p ELSE Cwd \o p

\* the last segment of a path and the path with another last segment
BaseName(p) == p[Len(p)]

Sibling(p, name) == SubSeq(p, 1, Len(p) - 1) \o <<name>>

(***************************************************************************)
(* State.                                                                  *)
(***************************************************************************)
VARIABLES
    descriptor,   \* bvproject.yaml: NoFile or <<mapping>>
    scaffold,     \* main.py, entry-points.json, bindings.json, pyproject.toml
    distDir,      \* whether <root>/dist exists
    venv,         \* <root>/.venv: "absent", "bare" (no bin directory),
                  \* "nopython" (a bin directory without python), "ready"
    files,        \* archives in the workspace and the publish tree, by path
    dirs,         \* directories that exist in the publish tree
    envRun,       \* os.environ["BV_SDK_RUN"], None if unset
    envUrl,       \* os.environ["BV_ORCHESTRATOR_URL"], None if unset
    sysPath,      \* sys.path
    pc,           \* the position of the running command, "idle" if none runs
    args,         \* the arguments of the last command
    loc,          \* the local variables of the last command
    result,       \* how the last command ended
    pre,          \* the state at the start of the last command
    ncmds,        \* number of commands that may still be started
    faults,       \* number of I/O operations that have failed
    log           \* the paths the publishes that succeeded have returned

vars == <<descriptor, scaffold, distDir, venv, files, dirs,
          envRun, envUrl, sysPath, pc, args, loc, result, pre, ncmds, faults,
          log>>

fsVars == <<descriptor, scaffold, distDir, venv, files, dirs>>

procVars == <<envRun, envUrl, sysPath>>

ConfigFile == "bvproject.yaml"

ScaffoldFiles == {"main.py", "entry-points.json", "bindings.json", "pyproject.toml"}

\* the files init_project writes, in its order
InitFiles == <<ConfigFile, "main.py", "entry-points.json", "bindings.json",
               "pyproject.toml">>

\* the filesystem as one value
Disk == [descriptor |-> descriptor, scaffold |-> scaffold,
         distDir |-> distDir, venv |-> venv, files |-> files, dirs |-> dirs]

\* the filesystem and the process state as one value
Snapshot == [disk |-> Disk, envRun |-> envRun, envUrl |-> envUrl,
             sysPath |-> sysPath]

NoResult == [cmd |-> "none", ok |-> TRUE, err |-> "", value |-> <<>>]

Ok(cmd, value) == [cmd |-> cmd, ok |-> TRUE, err |-> "", value |-> value]

Raised(cmd, err) == [cmd |-> cmd, ok |-> FALSE, err |-> err, value |-> <<>>]

\* an I/O operation fails
Fault == faults < MaxFaults /\ faults' = faults + 1

NoFault == faults' = faults

\* f without the key k
Without(f, k) == [x \in DOMAIN f \ {k} |-> f[x]]

\* f with the key k bound to v
With(f, k, v) == [x \in DOMAIN f \cup {k} |-> IF x = k THEN v ELSE f[x]]

(***************************************************************************)
(* init_project                                                            *)
(***************************************************************************)
\* the config init_project builds (lines 61-73)
InitConfig(name) ==
    [name |-> name, version |-> VerStr(0, 0, 0), venv_dir |-> ".venv",
     entrypoints |-> << [name |-> "main", command |-> <<"main", ":", "main">>,
                        workdir |-> "", default |-> TRUE] >>]

\* a mutant of InitConflict: the test is missing
InitConflict_missing(desc) == FALSE

\* the conflict test of init_project (line 49)
InitConflict(desc) == desc # NoFile

\* lines 46-77: the conflict test, the two mkdir, the name, the validation
InitStart ==
    /\ pc = "idle" /\ ncmds > 0
    /\ \E project_name \in {None, "proj", ""} :
        LET resolved_name == IF project_name # None THEN project_name
                             ELSE BaseName(Cwd)[1]
        IN  /\ args' = [cmd |-> "init", project_name |-> project_name]
            /\ pre' = Snapshot
            /\ ncmds' = ncmds - 1
            /\ IF InitConflict(descriptor)
               THEN /\ result' = Raised("init", "FileExistsError")
                    /\ loc' = [created_files |-> <<>>]
                    /\ pc' = "done"
                    /\ UNCHANGED distDir
               ELSE /\ distDir' = TRUE
                    /\ IF resolved_name = ""
                          \/ ValidateErrors(InitConfig(resolved_name), "root") # <<>>
                       THEN /\ result' = Raised("init", "ValueError")
                            /\ loc' = [created_files |-> <<>>]
                            /\ pc' = "done"
                       ELSE /\ pc' = "init_write"
                            /\ loc' = [config |-> InitConfig(resolved_name),
                                       venv_preexisting |-> (venv # "absent"),
                                       created_files |-> <<>>, err |-> "",
                                       wrote |-> {}, unlinkFailed |-> {},
                                       rmtreeFailed |-> FALSE]
                            /\ result' = NoResult
    /\ UNCHANGED <<descriptor, scaffold, venv, files, dirs, procVars, faults>>
    /\ UNCHANGED log

\* the file a successful _atomic_write_text leaves at the path
WriteFile(f, config) ==
    /\ IF f = ConfigFile
       THEN descriptor' = <<ToMapping(config)>> /\ UNCHANGED scaffold
       ELSE scaffold' = [scaffold EXCEPT ![f] = "init"] /\ UNCHANGED descriptor

\* lines 110-119: one _atomic_write_text and the append that follows it; the
\* write may raise
InitWrite ==
    /\ pc = "init_write"
    /\ LET f == InitFiles[Len(loc.created_files) + 1]
       IN  \/ /\ WriteFile(f, loc.config)
              /\ NoFault
              /\ loc' = [loc EXCEPT !.created_files = Append(@, f),
                                    !.wrote = @ \cup {f}]
              /\ pc' = IF Len(loc.created_files) + 1 = Len(InitFiles)
                       THEN "init_venv" ELSE "init_write"
           \/ /\ Fault
              /\ loc' = [loc EXCEPT !.err = "OSError"]
              /\ pc' = "init_rollback"
              /\ UNCHANGED <<descriptor, scaffold>>
    /\ UNCHANGED <<distDir, venv, files, dirs, procVars, args, result, pre, ncmds>>
    /\ UNCHANGED log

\* line 121, VenvManager.create: the venv command and the two pip commands
\* each may raise (check=True); a failed run leaves the directory as it was,
\* half made, or made
InitVenv ==
    /\ pc = "init_venv"
    /\ \/ /\ venv' = "ready"
          /\ NoFault
          /\ pc' = "done"
          /\ result' = Ok("init", <<>>)
          /\ UNCHANGED loc
       \/ /\ \E left \in {venv, "bare", "ready"} : venv' = left
          /\ Fault
          /\ loc' = [loc EXCEPT !.err = "CalledProcessError"]
          /\ pc' = "init_rollback"
          /\ UNCHANGED result
    /\ UNCHANGED <<descriptor, scaffold, distDir, files, dirs, procVars,
                   args, pre, ncmds>>
    /\ UNCHANGED log

\* a mutant of InitUnlink: the path is dropped from the list and not unlinked
InitUnlink_skipped ==
    /\ pc = "init_rollback" /\ loc.created_files # <<>>
    /\ loc' = [loc EXCEPT !.created_files = Tail(@)]
    /\ UNCHANGED <<fsVars, procVars, pc, args, result, pre, ncmds, faults, log>>

\* lines 123-127: one path.unlink(); an error it raises is swallowed
InitUnlink ==
    /\ pc = "init_rollback" /\ loc.created_files # <<>>
    /\ LET f == Head(loc.created_files)
       IN  \/ /\ IF f = ConfigFile
                 THEN descriptor' = NoFile /\ UNCHANGED scaffold
                 ELSE scaffold' = [scaffold EXCEPT ![f] = "absent"]
                      /\ UNCHANGED descriptor
              /\ loc' = [loc EXCEPT !.created_files = Tail(@)]
              /\ NoFault
           \/ /\ loc' = [loc EXCEPT !.created_files = Tail(@),
                                    !.unlinkFailed = @ \cup {f}]
              /\ Fault
              /\ UNCHANGED <<descriptor, scaffold>>
    /\ UNCHANGED <<distDir, venv, files, dirs, procVars, pc, args,
                   result, pre, ncmds>>
    /\ UNCHANGED log

\* lines 128-133: the rmtree of an environment init created (an error it
\* raises is swallowed), then the original error is raised again
InitReraise ==
    /\ pc = "init_rollback" /\ loc.created_files = <<>>
    /\ IF ~loc.venv_preexisting /\ venv # "absent"
       THEN \/ venv' = "absent" /\ NoFault /\ UNCHANGED loc
            \/ /\ \E left \in {venv, "bare"} : venv' = left
               /\ Fault
               /\ loc' = [loc EXCEPT !.rmtreeFailed = TRUE]
       ELSE NoFault /\ UNCHANGED <<venv, loc>>
    /\ pc' = "done"
    /\ result' = Raised("init", loc.err)
    /\ UNCHANGED <<descriptor, scaffold, distDir, files, dirs, procVars,
                   args, pre, ncmds>>
    /\ UNCHANGED log

(***************************************************************************)
(* validate_project and the collaborators it and build_package call        *)
(***************************************************************************)
\* the module part of "module:function" (command.split(":", 1)[0])
ModuleOf(command) ==
    LET i == FirstIndex(command, ":")
    IN  IF i = 0 THEN command ELSE SubSeq(command, 1, i - 1)

\* the function part of "module:function", <<>> without a ":"
FunctionOf(command) ==
    LET i == FirstIndex(command, ":")
    IN  IF i = 0 THEN <<>> ELSE SubSeq(command, i + 1, Len(command))

\* the modules under the project root besides main
ModulesOnDisk == { <<"lib", ".", "util">> }

\* EntrypointRegistry.validate: every entrypoint's import target exists
RegistryErrors(cfg, sc) ==
    IF \A i \in 1..Len(cfg.entrypoints) :
           \/ /\ ModuleOf(cfg.entrypoints[i].command) = <<"main">>
              /\ sc["main.py"] # "absent"
           \/ ModuleOf(cfg.entrypoints[i].command) \in ModulesOnDisk
    THEN <<>> ELSE <<"Entrypoints invalid">>

\* a mutant of ValidateProject: a descriptor that does not load is handed on
\* to the registry
ValidateProject_continues(desc, sc) ==
    IF desc = NoFile
    THEN [ok |-> FALSE, errors |-> <<"Config not found">>, config |-> <<>>,
          registry |-> FALSE]
    ELSE LET l == Load(desc)
         IN  IF ~l.ok
             THEN [ok |-> FALSE, errors |-> <<"Invalid config", "Entrypoints invalid">>,
                   config |-> <<>>, registry |-> TRUE]
             ELSE LET errors == RegistryErrors(l.cfg, sc)
                  IN  [ok |-> errors = <<>>, errors |-> errors,
                       config |-> <<l.cfg>>, registry |-> TRUE]

\* validate_project (lines 168-192): the ValidationResult it returns;
\* registry tells whether EntrypointRegistry.validate was called
ValidateProject(desc, sc) ==
    IF desc = NoFile
    THEN [ok |-> FALSE, errors |-> <<"Config not found">>, config |-> <<>>,
          registry |-> FALSE]
    ELSE LET l == Load(desc)
         IN  IF ~l.ok
             THEN [ok |-> FALSE, errors |-> <<"Invalid config">>, config |-> <<>>,
                   registry |-> FALSE]
             ELSE LET errors == RegistryErrors(l.cfg, sc)
                  IN  [ok |-> errors = <<>>, errors |-> errors,
                       config |-> <<l.cfg>>, registry |-> TRUE]

(***************************************************************************)
(* Archives: [manifest, name, version, eps, tag, whole].  manifest tells   *)
(* what manifest.json is ("object", "list" for JSON that is no object,     *)
(* "unreadable" for a member that is missing or no JSON), name and version *)
(* are its fields; eps is entry-points.json: what it is (json) and the     *)
(* entries of its entryPoints list, each [mapping, name, function] with "" *)
(* for a field that is missing or empty; whole is FALSE while the file is  *)
(* only partly written.                                                    *)
(***************************************************************************)
PackageEntry(mapping, name, function) ==
    [mapping |-> mapping, name |-> name, function |-> function]

\* the entry-points.json files of the model, by kind
EntryPointsJson(kind) ==
    LET good == PackageEntry(TRUE, "main", "main")
    IN  CASE kind = "ok" -> [json |-> "object", entries |-> <<good>>]
          [] kind = "empty" -> [json |-> "object", entries |-> <<>>]
          [] kind = "unreadable" -> [json |-> "unreadable", entries |-> <<>>]
          [] kind = "list" -> [json |-> "list", entries |-> <<>>]
          [] kind = "nonmapping" ->
                [json |-> "object",
                 entries |-> <<good, PackageEntry(FALSE, "", "")>>]
          [] kind = "noname" ->
                [json |-> "object",
                 entries |-> <<PackageEntry(TRUE, "", "main"), good>>]
          [] kind = "nofunction" ->
                [json |-> "object",
                 entries |-> <<good, PackageEntry(TRUE, "other", "")>>]

ArchiveOf(manifest, name, version, eps, tag) ==
    [manifest |-> manifest, name |-> name, version |-> version,
     eps |-> EntryPointsJson(eps), tag |-> tag, whole |-> TRUE]

Partial(c) == [c EXCEPT !.whole = FALSE]

\* PackageBuilder.build: the archive of a config
BuiltArchive(cfg) == ArchiveOf("object", cfg.name, cfg.version, "ok", "built")

\* PackageBuilder.build: the path of the archive it writes for a target
BuildOutput(target) ==
    IF Suffix(BaseName(target)) = BvExt THEN target
    ELSE Sibling(target, BaseName(target) \o BvExt)

\* a mutant of PackageFileError: the entry-point list is not looked at
PackageFileError_nolist(c, expected_name, expected_version) ==
    IF ~c.whole \/ c.manifest = "unreadable" \/ c.eps.json = "unreadable"
    THEN "ValueError: Invalid package contents"
    ELSE IF c.manifest # "object" \/ c.name # expected_name
    THEN "ValueError: Package name mismatch"
    ELSE IF c.version # expected_version
    THEN "ValueError: Package version mismatch"
    ELSE ""

\* _validate_package_file (lines 469-495): "" if the archive passes, else
\* the error; a manifest that is no object has no name (None), an
\* entry-points.json that is no object has no entries (None)
PackageFileError(c, expected_name, expected_version) ==
    IF ~c.whole \/ c.manifest = "unreadable" \/ c.eps.json = "unreadable"
    THEN "ValueError: Invalid package contents"
    ELSE LET name == IF c.manifest = "object" THEN c.name ELSE None
             version == IF c.manifest = "object" THEN c.version ELSE <<None>>
             entries == IF c.eps.json = "object" THEN c.eps.entries ELSE <<>>
             bad == FirstTrue([i \in 1..Len(entries) |->
                        \/ ~entries[i].mapping
                        \/ entries[i].name = ""
                        \/ entries[i].function = ""])
         IN  IF name # expected_name THEN "ValueError: Package name mismatch"
             ELSE IF version # expected_version
             THEN "ValueError: Package version mismatch"
             ELSE IF entries = <<>>
             THEN "ValueError: entry-points.json missing or empty"
             ELSE IF bad # 0 /\ ~entries[bad].mapping
             THEN "ValueError: Entrypoint is invalid; expected mapping"
             ELSE IF bad # 0
             THEN "ValueError: Entrypoint missing name or function"
             ELSE ""

\* the archive arguments of the model: none, and two files of the workspace
CustomPkg == << <<"custom", ".", "bvpackage">> >>

CustomZip == << <<"custom", ".", "zip">> >>

PackageArgs == {<<>>, CustomPkg, CustomZip}

(***************************************************************************)
(* build_package                                                           *)
(***************************************************************************)
\* the characters of a token of a path
Chars(tok) ==
    CASE tok = "." -> <<".">>
      [] tok = "-" -> <<"-">>
      [] tok = "/" -> <<"/">>
      [] tok = "main" -> <<"m", "a", "i", "n">>
      [] tok = "py" -> <<"p", "y">>
      [] tok = "entry" -> <<"e", "n", "t", "r", "y">>
      [] tok = "points" -> <<"p", "o", "i", "n", "t", "s">>
      [] tok = "json" -> <<"j", "s", "o", "n">>
      [] tok = "bindings" -> <<"b", "i", "n", "d", "i", "n", "g", "s">>
      [] tok = "pyproject" -> <<"p", "y", "p", "r", "o", "j", "e", "c", "t">>
      [] tok = "toml" -> <<"t", "o", "m", "l">>
      [] tok = "bvproject" -> <<"b", "v", "p", "r", "o", "j", "e", "c", "t">>
      [] tok = "yaml" -> <<"y", "a", "m", "l">>
      [] tok = "jobs" -> <<"j", "o", "b", "s">>
      [] tok = "lib" -> <<"l", "i", "b">>
      [] tok = "util" -> <<"u", "t", "i", "l">>
      [] tok = "extra" -> <<"e", "x", "t", "r", "a">>
      [] tok = "txt" -> <<"t", "x", "t">>
      [] tok = "README" -> <<"R", "E", "A", "D", "M", "E">>
      [] tok = "md" -> <<"m", "d">>

\* the characters of the model's paths in the order of their code points
Alphabet == <<"-", ".", "/", "A", "D", "E", "M", "R",
              "a", "b", "c", "d", "e", "g", "i", "j", "l", "m", "n", "o",
              "p", "r", "s", "t", "u", "v", "x", "y">>

\* ord(ch), up to the order: the place of a character in Alphabet
Ord == [ch \in {Alphabet[i] : i \in 1..Len(Alphabet)} |->
           CHOOSE i \in 1..Len(Alphabet) : Alphabet[i] = ch]

RECURSIVE Flatten(_)
Flatten(ss) == IF ss = <<>> THEN <<>> ELSE Head(ss) \o Flatten(Tail(ss))

\* the tokens of a path with "/" between its segments
RECURSIVE JoinSegments(_)
JoinSegments(p) ==
    IF Len(p) = 1 THEN p[1] ELSE p[1] \o <<"/">> \o JoinSegments(Tail(p))

\* Path.as_posix, as characters
AsPosix(p) ==
    LET toks == JoinSegments(p)
    IN  Flatten([i \in 1..Len(toks) |-> Chars(toks[i])])

\* Python's order of two strings: a < b
RECURSIVE StrLess(_, _)
StrLess(a, b) ==
    IF b = <<>> THEN FALSE
    ELSE IF a = <<>> THEN TRUE
    ELSE IF Head(a) # Head(b) THEN Ord[Head(a)] < Ord[Head(b)]
    ELSE StrLess(Tail(a), Tail(b))

\* the items of a set of <<key, item>> pairs with distinct keys in the order
\* of their keys: an item's place is one more than the number of smaller keys
SortedByKey(K) ==
    LET placed == {<<1 + Cardinality({y \in K : StrLess(y[1], x[1])}), x[2]>> :
                      x \in K}
    IN  [i \in 1..Cardinality(K) |-> (CHOOSE q \in placed : q[1] = i)[2]]

\* sorted(sources, key=lambda p: p.as_posix())
SortedByPosix(S) == SortedByKey({<<AsPosix(p), p>> : p \in S})

\* module_name.split(".")
RECURSIVE SplitDots(_)
SplitDots(toks) ==
    LET i == FirstIndex(toks, ".")
    IN  IF i = 0 THEN <<toks>>
        ELSE <<SubSeq(toks, 1, i - 1)>> \o SplitDots(SubSeq(toks, i + 1, Len(toks)))

\* line 225: Path(*module_name.split(".")).with_suffix(".py")
ModuleFile(module_name) ==
    LET parts == SplitDots(module_name)
    IN  Sibling(parts, WithSuffix(BaseName(parts), <<".", "py">>))

\* the path of a file of the project root given by its name
SourcePath(f) ==
    CASE f = "main.py" -> << <<"main", ".", "py">> >>
      [] f = "entry-points.json" -> << <<"entry", "-", "points", ".", "json">> >>
      [] f = "bindings.json" -> << <<"bindings", ".", "json">> >>
      [] f = "pyproject.toml" -> << <<"pyproject", ".", "toml">> >>
      [] f = "bvproject.yaml" -> << <<"bvproject", ".", "yaml">> >>
      [] f = "jobs" -> << <<"jobs">> >>

\* lines 215-221: the four scaffold files and the descriptor
FixedSources == {SourcePath(f) : f \in ScaffoldFiles \cup {ConfigFile}}

\* lines 222-227: the module file and the workdir of every entrypoint
RECURSIVE EntrySources(_)
EntrySources(eps) ==
    IF eps = <<>> THEN {}
    ELSE LET entry == Head(eps)
             module_name == ModuleOf(entry.command)
         IN  (IF module_name # <<>> THEN {ModuleFile(module_name)} ELSE {})
             \cup (IF entry.workdir # "" THEN {SourcePath(entry.workdir)} ELSE {})
             \cup EntrySources(Tail(eps))

\* the extra paths a caller may include, and the lists of them
MaxInclude == 2

IncludeItems == { << <<"extra", ".", "txt">> >>, << <<"README", ".", "md">> >> }

IncludeLists == UNION {[1..n -> IncludeItems] : n \in 0..MaxInclude}

\* a mutant of BuildSources: the paths are handed over as they were collected
BuildSources_listed(cfg, include) ==
    << SourcePath("main.py"), SourcePath("entry-points.json"),
       SourcePath("bindings.json"), SourcePath("pyproject.toml"),
       SourcePath(ConfigFile) >> \o include

\* lines 215-230 and 236: the sources build_package hands to the builder
BuildSources(cfg, include) ==
    SortedByPosix(FixedSources \cup EntrySources(cfg.entrypoints)
                  \cup {include[i] : i \in 1..Len(include)})

\* line 232: target = output or Path("dist") / f"{cfg.name}-{cfg.version}"
BuildTarget(cfg, output) ==
    IF output # <<>> THEN output
    ELSE << <<"dist">>, <<cfg.name, "-">> \o cfg.version >>

\* a mutant of VenvExists: any state of the environment directory will do
VenvExists_any(v) == TRUE

\* VenvManager.exists: the bin directory of the environment exists
VenvExists(v) == v \in {"nopython", "ready"}

BuildFail(err) ==
    /\ pc' = "done"
    /\ result' = Raised("build", err)
    /\ loc' = [destination |-> <<>>]

\* lines 202-232: validation, the environment gate (VenvManager.ensure with
\* create_if_missing=False), the sources and the target
BuildStart ==
    /\ pc = "idle" /\ ncmds > 0
    /\ \E output \in {<<>>, CustomPkg}, include \in IncludeLists,
          dry_run \in BOOLEAN :
        LET validation == ValidateProject(descriptor, scaffold)
        IN  /\ args' = [cmd |-> "build", output |-> output,
                        include |-> include, dry_run |-> dry_run]
            /\ pre' = Snapshot
            /\ ncmds' = ncmds - 1
            /\ IF ~validation.ok \/ validation.config = <<>>
               THEN BuildFail("ValueError: Validation failed")
               ELSE IF ~VenvExists(venv)
               THEN BuildFail("FileNotFoundError: Virtual environment not found")
               ELSE /\ pc' = "bld_building"
                    /\ result' = NoResult
                    /\ loc' = [destination |-> <<>>,
                               buildCfg |-> validation.config,
                               sources |-> BuildSources(validation.config[1], include),
                               target |-> BuildTarget(validation.config[1], output)]
    /\ UNCHANGED <<fsVars, procVars, faults>>
    /\ UNCHANGED log

\* lines 233-239: the archive builder; a dry run computes the path only
BuildBuilding ==
    /\ pc = "bld_building"
    /\ LET out == BuildOutput(loc.target)
       IN  \/ /\ args.dry_run
              /\ NoFault
              /\ pc' = "done"
              /\ result' = Ok("build", out)
              /\ UNCHANGED <<files, distDir>>
           \/ /\ ~args.dry_run
              /\ NoFault
              /\ files' = With(files, Resolve(out), BuiltArchive(loc.buildCfg[1]))
              /\ distDir' = (distDir \/ out[1] = <<"dist">>)
              /\ pc' = "done"
              /\ result' = Ok("build", out)
           \/ /\ ~args.dry_run
              /\ Fault
              /\ pc' = "done"
              /\ result' = Raised("build", "BuildError")
              /\ UNCHANGED <<files, distDir>>
    /\ UNCHANGED <<descriptor, scaffold, venv, dirs, procVars, args, loc,
                   pre, ncmds>>
    /\ UNCHANGED log

(***************************************************************************)
(* publish_package                                                         *)
(***************************************************************************)
PublishDirs == { << <<"published">> >> }

\* a mutant of DryRunResult: the version of the path is the current one
DryRunResult_current(cfg, next_version, a) ==
    LET given == IF a.package_path = <<>>
                 THEN << <<"dist">>, PkgFileName(cfg.name, cfg.version) >>
                 ELSE a.package_path
    IN  Resolve(a.publish_dir \o << <<cfg.name>>, cfg.version,
                                   WithSuffix(BaseName(given), BvExt) >>)

\* lines 262-269: the path a dry run returns
DryRunResult(cfg, next_version, a) ==
    LET effective_name == cfg.name
        effective_version == next_version
        given == IF a.package_path = <<>>
                 THEN << <<"dist">>, PkgFileName(effective_name, effective_version) >>
                 ELSE a.package_path
        effective_package_path ==
            Sibling(given, WithSuffix(BaseName(given), BvExt))
    IN  Resolve(a.publish_dir \o << <<effective_name>>, effective_version,
                                   BaseName(effective_package_path) >>)

\* a mutant of IsDryRun: the dry run is not honoured
IsDryRun_ignored(a) == FALSE

\* line 262
IsDryRun(a) == a.dry_run

\* a mutant of PersistVersion: the version is not written before the build
PersistVersion_deferred(desc, cfg) == desc

\* line 273: the descriptor file after _atomic_write_yaml(cfg.to_mapping())
PersistVersion(desc, cfg) == <<ToMapping(cfg)>>

\* a mutant of ConflictRaised: the overwrite permission is not honoured
ConflictRaised_always(exists, overwrite) == exists

\* line 297
ConflictRaised(exists, overwrite) == exists /\ ~overwrite

\* line 304: where a move first puts the archive
MoveTmpDest(destination, exists) ==
    IF exists
    THEN Sibling(destination, WithSuffix(BaseName(destination),
                                         Suffix(BaseName(destination)) \o TmpExt))
    ELSE destination

\* line 319: where a copy first puts the archive
CopyTmpDest(destination) ==
    Sibling(destination, WithSuffix(BaseName(destination),
                                    Suffix(BaseName(destination)) \o TmpExt))

PublishFail(err) ==
    /\ pc' = "done"
    /\ result' = Raised("publish", err)

\* lines 254-269: validation, the bump, and the dry run's return
PublishCall(a) ==
    /\ pc = "idle" /\ ncmds > 0
    /\  LET validation == ValidateProject(descriptor, scaffold)
            package_path == a.package_path
        IN  /\ validation.ok => BumpInBounds(validation.config[1].version, a.bump)
            /\ args' = a
            /\ pre' = Snapshot
            /\ ncmds' = ncmds - 1
            /\ IF ~validation.ok \/ validation.config = <<>>
               THEN /\ PublishFail("ValueError: Validation failed")
                    /\ loc' = [destination |-> <<>>]
               ELSE LET cfg == validation.config[1]
                        next == bump_semver(cfg.version, a.bump)
                    IN  IF ~next.ok
                        THEN /\ PublishFail("ValueError: bump")
                             /\ loc' = [destination |-> <<>>]
                        ELSE IF IsDryRun(a)
                        THEN /\ pc' = "done"
                             /\ result' = Ok("publish", DryRunResult(cfg, next.v, a))
                             /\ loc' = [destination |-> <<>>]
                        ELSE /\ pc' = "pub_persist"
                             /\ result' = NoResult
                             /\ loc' = [cfg |-> cfg, next_version |-> next.v,
                                        package_path |-> package_path,
                                        buildCfg |-> <<>>, target |-> <<>>,
                                        destination |-> <<>>, tmp_dest |-> <<>>,
                                        destExisted |-> FALSE, src |-> <<>>,
                                        checked |-> <<>>,
                                        err |-> "", fault |-> FALSE]
    /\ UNCHANGED <<fsVars, procVars, faults>>
    /\ UNCHANGED log

\* publish_package called with arguments of the caller's choice
PublishStart ==
    \E package_path \in PackageArgs, publish_dir \in PublishDirs,
       move \in BOOLEAN, overwrite \in BOOLEAN, bump \in Parts,
       dry_run \in BOOLEAN :
        PublishCall([cmd |-> "publish", package_path |-> package_path,
                     publish_dir |-> publish_dir, move |-> move,
                     overwrite |-> overwrite, bump |-> bump, dry_run |-> dry_run])

\* lines 272-276: the bumped version is written to the descriptor, which is
\* then loaded again; the write may raise
PublishPersist ==
    /\ pc = "pub_persist"
    /\ \/ LET written == PersistVersion(descriptor,
                                        [loc.cfg EXCEPT !.version = loc.next_version])
              reloaded == Load(written)
          IN  /\ descriptor' = written
              /\ NoFault
              /\ IF reloaded.ok
                 THEN /\ loc' = [loc EXCEPT !.cfg = reloaded.cfg]
                      /\ pc' = "pub_build"
                      /\ UNCHANGED result
                 ELSE /\ PublishFail("ValueError: Invalid config")
                      /\ UNCHANGED loc
       \/ /\ Fault
          /\ PublishFail("OSError: write")
          /\ UNCHANGED <<descriptor, loc>>
    /\ UNCHANGED <<scaffold, distDir, venv, files, dirs, procVars, args, pre, ncmds>>
    /\ UNCHANGED log

\* lines 279-285 and build_package lines 202-213: whether to build, and the
\* validation and the environment gate of the build
PublishBuild ==
    /\ pc = "pub_build"
    /\ IF loc.package_path = <<>> \/ Resolve(loc.package_path) \notin DOMAIN files
       THEN LET validation == ValidateProject(descriptor, scaffold)
            IN  IF ~validation.ok \/ validation.config = <<>>
                THEN PublishFail("ValueError: Validation failed") /\ UNCHANGED loc
                ELSE IF ~VenvExists(venv)
                THEN PublishFail("FileNotFoundError: Virtual environment not found")
                     /\ UNCHANGED loc
                ELSE /\ pc' = "pub_building"
                     /\ loc' = [loc EXCEPT
                            !.buildCfg = validation.config,
                            !.target =
                                IF loc.package_path # <<>> THEN loc.package_path
                                ELSE << <<"dist">>,
                                        <<validation.config[1].name, "-">>
                                        \o validation.config[1].version >>]
                     /\ UNCHANGED result
       ELSE pc' = "pub_check" /\ UNCHANGED <<loc, result>>
    /\ UNCHANGED <<fsVars, procVars, args, pre, ncmds, faults>>
    /\ UNCHANGED log

\* build_package lines 233-239: the archive builder writes the archive, or
\* raises
PublishBuilding ==
    /\ pc = "pub_building"
    /\ \/ LET out == BuildOutput(loc.target)
          IN  /\ files' = With(files, Resolve(out), BuiltArchive(loc.buildCfg[1]))
              /\ distDir' = (distDir \/ out[1] = <<"dist">>)
              /\ loc' = [loc EXCEPT !.package_path = out]
              /\ NoFault
              /\ pc' = "pub_check"
              /\ UNCHANGED result
       \/ /\ Fault
          /\ PublishFail("BuildError")
          /\ UNCHANGED <<files, distDir, loc>>
    /\ UNCHANGED <<descriptor, scaffold, venv, dirs, procVars, args,
                   pre, ncmds>>
    /\ UNCHANGED log

\* lines 286-305: the archive is checked, the destination directory made,
\* the conflict test, and the temporary path chosen
PublishCheck ==
    /\ pc = "pub_check"
    /\ LET src == Resolve(loc.package_path)
           destination_dir ==
               Resolve(args.publish_dir \o << <<loc.cfg.name>>, loc.cfg.version >>)
           destination == destination_dir \o <<BaseName(loc.package_path)>>
           exists == destination \in DOMAIN files
           integrity == PackageFileError(files[src], loc.cfg.name, loc.cfg.version)
       IN  IF src \notin DOMAIN files
           THEN PublishFail("FileNotFoundError: Package not found")
                /\ UNCHANGED <<loc, dirs>>
           ELSE IF Suffix(BaseName(loc.package_path)) # BvExt
           THEN PublishFail("ValueError: Publish requires a .bvpackage artifact")
                /\ UNCHANGED <<loc, dirs>>
           ELSE IF integrity # ""
           THEN /\ PublishFail(integrity)
                /\ loc' = [loc EXCEPT !.checked = <<files[src]>>]
                /\ UNCHANGED dirs
           ELSE /\ dirs' = dirs \cup {destination_dir}
                /\ IF ConflictRaised(exists, args.overwrite)
                   THEN /\ PublishFail("FileExistsError")
                        /\ loc' = [loc EXCEPT !.destination = destination,
                                              !.checked = <<files[src]>>,
                                              !.destExisted = exists]
                   ELSE /\ pc' = IF args.move THEN "pub_unlink" ELSE "pub_transfer"
                        /\ loc' = [loc EXCEPT
                               !.destination = destination,
                               !.checked = <<files[src]>>,
                               !.destExisted = exists,
                               !.src = <<files[src]>>,
                               !.tmp_dest = IF args.move
                                            THEN MoveTmpDest(destination, exists)
                                            ELSE CopyTmpDest(destination)]
                        /\ UNCHANGED result
    /\ UNCHANGED <<descriptor, scaffold, distDir, venv, files, procVars,
                   args, pre, ncmds, faults>>
    /\ UNCHANGED log

\* lines 307-308 (move): an existing destination is unlinked first
PublishUnlinkOld ==
    /\ pc = "pub_unlink"
    /\ IF loc.destination \in DOMAIN files
       THEN \/ /\ files' = Without(files, loc.destination)
               /\ NoFault
               /\ pc' = "pub_transfer"
               /\ UNCHANGED loc
            \/ /\ Fault
               /\ loc' = [loc EXCEPT !.err = "OSError: unlink", !.fault = TRUE]
               /\ pc' = "pub_cleanup"
               /\ UNCHANGED files
       ELSE pc' = "pub_transfer" /\ NoFault /\ UNCHANGED <<files, loc>>
    /\ UNCHANGED <<descriptor, scaffold, distDir, venv, dirs, procVars,
                   args, result, pre, ncmds>>
    /\ UNCHANGED log

\* line 309 (shutil.move) and line 321 (shutil.copy2) start: a move inside
\* one filesystem is a rename; a move across filesystems and a copy open the
\* target and write it piece by piece
PublishTransfer ==
    /\ pc = "pub_transfer"
    /\ LET src == Resolve(loc.package_path)
       IN  \/ /\ args.move
              /\ NoFault
              /\ files' = With(Without(files, src), loc.tmp_dest, files[src])
              /\ pc' = "pub_replace"
              /\ UNCHANGED loc
           \/ /\ NoFault
              /\ files' = With(files, loc.tmp_dest, Partial(files[src]))
              /\ pc' = "pub_writing"
              /\ UNCHANGED loc
           \/ /\ Fault
              /\ loc' = [loc EXCEPT !.err = "OSError: transfer", !.fault = TRUE]
              /\ pc' = "pub_cleanup"
              /\ UNCHANGED files
    /\ UNCHANGED <<descriptor, scaffold, distDir, venv, dirs, procVars,
                   args, result, pre, ncmds>>
    /\ UNCHANGED log

\* the rest of the copy: it completes (a move then unlinks the source), or it
\* raises and leaves the partly written target
PublishWriting ==
    /\ pc = "pub_writing"
    /\ LET src == Resolve(loc.package_path)
           done == With(files, loc.tmp_dest, files[src])
       IN  \/ /\ NoFault
              /\ files' = IF args.move THEN Without(done, src) ELSE done
              /\ pc' = "pub_replace"
              /\ UNCHANGED loc
           \/ /\ Fault
              /\ loc' = [loc EXCEPT !.err = "OSError: transfer", !.fault = TRUE]
              /\ pc' = "pub_cleanup"
              /\ UNCHANGED files
    /\ UNCHANGED <<descriptor, scaffold, distDir, venv, dirs, procVars,
                   args, result, pre, ncmds>>
    /\ UNCHANGED log

\* lines 310 and 322: tmp_dest.replace(destination), then the return
PublishReplace ==
    /\ pc = "pub_replace"
    /\ \/ /\ files' = IF loc.tmp_dest = loc.destination THEN files
                      ELSE With(Without(files, loc.tmp_dest), loc.destination,
                                files[loc.tmp_dest])
          /\ NoFault
          /\ pc' = "done"
          /\ result' = Ok("publish", loc.destination)
          /\ log' = Append(log, loc.destination)
          /\ UNCHANGED loc
       \/ /\ loc.tmp_dest # loc.destination
          /\ Fault
          /\ loc' = [loc EXCEPT !.err = "OSError: replace", !.fault = TRUE]
          /\ pc' = "pub_cleanup"
          /\ UNCHANGED <<files, result, log>>
    /\ UNCHANGED <<descriptor, scaffold, distDir, venv, dirs, procVars,
                   args, pre, ncmds>>

\* lines 311-317 and 323-329: the temporary artifact is unlinked if it
\* exists (an error of the unlink is swallowed) and the error is raised again
PublishCleanup ==
    /\ pc = "pub_cleanup"
    /\ IF loc.tmp_dest \in DOMAIN files
       THEN \/ files' = Without(files, loc.tmp_dest) /\ NoFault
            \/ Fault /\ UNCHANGED files
       ELSE NoFault /\ UNCHANGED files
    /\ PublishFail(loc.err)
    /\ UNCHANGED <<descriptor, scaffold, distDir, venv, dirs, procVars,
                   args, loc, pre, ncmds>>
    /\ UNCHANGED log

(***************************************************************************)
(* run_project                                                             *)
(***************************************************************************)
\* what --input names: no file, a file that cannot be read, text that is not
\* JSON, and the JSON values null, {}, a non-empty object, a list
Inputs == {"none", "unreadable", "badjson", "null", "empty", "object", "list"}

\* lines 362-377: the input_data of an input, or the error; {} is "empty"
InputData(input) ==
    CASE input = "none" -> [ok |-> TRUE, data |-> "empty"]
      [] input = "unreadable" -> [ok |-> FALSE, err |-> "ValueError: Unable to read input"]
      [] input = "badjson" -> [ok |-> FALSE, err |-> "ValueError: Invalid JSON"]
      [] input = "null" -> [ok |-> TRUE, data |-> "empty"]
      [] input = "empty" -> [ok |-> TRUE, data |-> "empty"]
      [] input = "object" -> [ok |-> TRUE, data |-> "object"]
      [] OTHER -> [ok |-> FALSE, err |-> "ValueError: Input JSON must be an object"]

\* the truth value of a dict: an empty dict is false
Truthy(data) == data = "object"

\* EntrypointRegistry.get: the entry of that name, <<>> if there is none
RegistryGet(cfg, name) ==
    SelectSeq(cfg.entrypoints, LAMBDA e : e.name = name)

\* lines 351-360: the selected entrypoint, <<>> if none
SelectEntry(cfg, entry_name) ==
    LET found == IF entry_name # None THEN RegistryGet(cfg, entry_name)
                 ELSE SelectSeq(cfg.entrypoints, LAMBDA e : e.default)
    IN  IF found = <<>> THEN <<>> ELSE <<found[1]>>

\* a parameter of a signature: its kind and whether it has a default
Param(kind, hasDefault) == [kind |-> kind, hasDefault |-> hasDefault]

\* the signatures of the entrypoints of the model
Signatures ==
    { <<>>,
      <<Param("POSITIONAL_OR_KEYWORD", FALSE)>>,
      <<Param("POSITIONAL_OR_KEYWORD", TRUE)>>,
      <<Param("POSITIONAL_OR_KEYWORD", FALSE), Param("POSITIONAL_OR_KEYWORD", FALSE)>>,
      <<Param("POSITIONAL_ONLY", FALSE), Param("POSITIONAL_ONLY", FALSE)>>,
      <<Param("POSITIONAL_OR_KEYWORD", FALSE), Param("POSITIONAL_OR_KEYWORD", TRUE)>>,
      <<Param("POSITIONAL_OR_KEYWORD", TRUE), Param("POSITIONAL_OR_KEYWORD", TRUE)>>,
      <<Param("VAR_POSITIONAL", FALSE)>>,
      <<Param("VAR_KEYWORD", FALSE)>>,
      <<Param("KEYWORD_ONLY", FALSE)>> }

\* lines 428-433
Required(params) ==
    SelectSeq(params, LAMBDA q : ~q.hasDefault
                          /\ q.kind \notin {"VAR_POSITIONAL", "VAR_KEYWORD"})

\* Python's binding of a call with nargs positional arguments (0 or 1) and
\* no keyword: TRUE if the call enters the body, FALSE if it raises TypeError
Binds(params, nargs) ==
    LET positional == SelectSeq(params, LAMBDA q :
                          q.kind \in {"POSITIONAL_ONLY", "POSITIONAL_OR_KEYWORD"})
        varpos == \E i \in 1..Len(params) : params[i].kind = "VAR_POSITIONAL"
        kwonlyOk == \A i \in 1..Len(params) :
                        params[i].kind = "KEYWORD_ONLY" => params[i].hasDefault
    IN  /\ kwonlyOk
        /\ \A i \in 1..Len(positional) : i > nargs => positional[i].hasDefault
        /\ nargs > Len(positional) => varpos

\* a mutant of CallPlan: without input every signature with a parameter is
\* called with an empty object
CallPlan_lenient(params, input_data) ==
    IF Truthy(input_data)
    THEN [call |-> TRUE, nargs |-> 1, arg |-> input_data]
    ELSE IF Len(params) = 0
         THEN [call |-> TRUE, nargs |-> 0, arg |-> "no argument"]
         ELSE [call |-> TRUE, nargs |-> 1, arg |-> "empty"]

\* lines 435-449: what run_project does with the callable: the error it
\* raises, or the number of arguments and the argument it calls with
CallPlan(params, input_data) ==
    LET required == Required(params)
    IN  IF Truthy(input_data)
        THEN IF Len(required) = 0 /\ Len(params) = 0
             THEN [call |-> FALSE, err |-> "TypeError: Entrypoint does not accept input"]
             ELSE IF Len(params) = 0
             THEN [call |-> FALSE, err |-> "TypeError: Entrypoint does not accept arguments"]
             ELSE IF Len(required) > 1
                     /\ \A i \in 1..Len(required) : required[i].kind = "POSITIONAL_ONLY"
             THEN [call |-> FALSE,
                   err |-> "TypeError: Entrypoint requires multiple positional arguments"]
             ELSE [call |-> TRUE, nargs |-> 1, arg |-> input_data]
        ELSE IF Len(required) = 0 /\ Len(params) = 0
             THEN [call |-> TRUE, nargs |-> 0, arg |-> "no argument"]
             ELSE IF Len(required) <= 1 /\ Len(params) >= 1
             THEN [call |-> TRUE, nargs |-> 1, arg |-> "empty"]
             ELSE [call |-> FALSE,
                   err |-> "TypeError: Entrypoint signature must accept 0 args or exactly 1 argument"]

RunFail(err) ==
    /\ pc' = "done"
    /\ result' = Raised("run", err)
    /\ loc' = [destination |-> <<>>, called |-> <<>>, bodyRan |-> FALSE]

ProjectRoot == "/work"

\* lines 344-384: everything before the try block
RunStart ==
    /\ pc = "idle" /\ ncmds > 0
    /\ \E entry_name \in {None, "main", "other", "nope"}, input \in Inputs :
        LET l == Load(descriptor)
            selected == SelectEntry(l.cfg, entry_name)
            data == InputData(input)
            command == selected[1].command
        IN  /\ args' = [cmd |-> "run", entry_name |-> entry_name, input |-> input]
            /\ pre' = Snapshot
            /\ ncmds' = ncmds - 1
            /\ IF descriptor = NoFile THEN RunFail("FileNotFoundError: Config not found")
               ELSE IF ~l.ok THEN RunFail("ValueError: config")
               ELSE IF selected = <<>> THEN RunFail("ValueError: No default entrypoint")
               ELSE IF ~data.ok THEN RunFail(data.err)
               ELSE IF \A i \in 1..Len(command) : command[i] # ":"
               THEN RunFail("ValueError: Entrypoint command must be in 'module:function' format")
               ELSE IF ModuleOf(command) = <<>> \/ FunctionOf(command) = <<>>
               THEN RunFail("ValueError: Entrypoint command must include both module and function")
               ELSE /\ pc' = "run_try"
                    /\ result' = NoResult
                    /\ loc' = [destination |-> <<>>, input_data |-> data.data,
                               module_name |-> ModuleOf(command),
                               func_name |-> FunctionOf(command),
                               old_bv_sdk_run |-> None, old_bv_orch_url |-> None,
                               added_path |-> FALSE, params |-> <<>>,
                               hasSignature |-> FALSE, status |-> "", err |-> "",
                               called |-> <<>>, bodyRan |-> FALSE]
    /\ UNCHANGED <<fsVars, procVars, faults>>
    /\ UNCHANGED log

\* lines 386-406: the old values are kept, the marker set, the declared URL
\* exported (resolve_orchestrator_url may find none, or raise), and the
\* project root put first on sys.path if it is not on it
RunEnter ==
    /\ pc = "run_try"
    /\ envRun' = "1"
    /\ \E expected_url \in {descriptor[1].orchestrator, None} :
          envUrl' = IF expected_url # None THEN expected_url ELSE envUrl
    /\ LET add == \A i \in 1..Len(sysPath) : sysPath[i] # ProjectRoot
       IN  /\ sysPath' = IF add THEN <<ProjectRoot>> \o sysPath ELSE sysPath
           /\ loc' = [loc EXCEPT !.old_bv_sdk_run = envRun,
                                 !.old_bv_orch_url = envUrl,
                                 !.added_path = add]
    /\ pc' = "run_import"
    /\ UNCHANGED <<fsVars, args, result, pre, ncmds, faults>>
    /\ UNCHANGED log

\* lines 407-425: the import, the attribute, callable(), inspect.signature
RunImport ==
    /\ pc = "run_import"
    /\ \/ \E err \in {"ImportError", "AttributeError", "TypeError: not callable"} :
             /\ loc' = [loc EXCEPT !.status = "raise", !.err = err]
             /\ pc' = "run_finally"
       \/ \E params \in Signatures :
             /\ loc' = [loc EXCEPT !.params = params, !.hasSignature = TRUE]
             /\ pc' = "run_call"
       \/ /\ loc' = [loc EXCEPT !.hasSignature = FALSE]
          /\ pc' = "run_call"
    /\ UNCHANGED <<fsVars, procVars, args, result, pre, ncmds, faults>>
    /\ UNCHANGED log

\* what the code of the entrypoint may do to the two variables
BodyEnv == {<<"keep">>, <<"set", "user", "http://user">>, <<"set", None, None>>}

\* the call: Python binds the arguments (TypeError if it cannot) and the body
\* runs; it may change the two process variables, and returns or raises
Invoke(nargs, arg, binds) ==
    IF ~binds
    THEN /\ loc' = [loc EXCEPT !.called = <<[nargs |-> nargs, arg |-> arg]>>,
                               !.status = "raise", !.err = "TypeError: arguments"]
         /\ UNCHANGED <<envRun, envUrl>>
    ELSE /\ \E e \in BodyEnv :
               /\ envRun' = IF e[1] = "keep" THEN envRun ELSE e[2]
               /\ envUrl' = IF e[1] = "keep" THEN envUrl ELSE e[3]
         /\ \E raises \in BOOLEAN :
               loc' = [loc EXCEPT !.called = <<[nargs |-> nargs, arg |-> arg]>>,
                                  !.bodyRan = TRUE,
                                  !.status = IF raises THEN "raise" ELSE "return",
                                  !.err = IF raises THEN "Exception in entrypoint"
                                          ELSE ""]

\* lines 423-449: the fallback without a signature, else the binding policy
RunCall ==
    /\ pc = "run_call"
    /\ IF ~loc.hasSignature
       THEN \E binds \in BOOLEAN :
               IF Truthy(loc.input_data) THEN Invoke(1, loc.input_data, binds)
               ELSE Invoke(0, "no argument", binds)
       ELSE LET plan == CallPlan(loc.params, loc.input_data)
            IN  IF plan.call
                THEN Invoke(plan.nargs, plan.arg, Binds(loc.params, plan.nargs))
                ELSE /\ loc' = [loc EXCEPT !.status = "raise", !.err = plan.err]
                     /\ UNCHANGED <<envRun, envUrl>>
    /\ pc' = "run_finally"
    /\ UNCHANGED <<fsVars, sysPath, args, result, pre, ncmds, faults>>
    /\ UNCHANGED log

\* a mutant of Restored: a variable that was unset is not removed again
Restored_keeps(old, current) == IF old = None THEN current ELSE old

\* lines 452-460: the value of a process variable after the finally block;
\* None is "unset" (os.environ.pop)
Restored(old, current) == old

\* sys.path.remove: the list without the first occurrence of x
RemoveFirst(path, x) ==
    LET i == FirstIndex(path, x)
    IN  IF i = 0 THEN path
        ELSE SubSeq(path, 1, i - 1) \o SubSeq(path, i + 1, Len(path))

\* lines 462-466
RestoredPath(path, added_path) ==
    IF added_path THEN RemoveFirst(path, ProjectRoot) ELSE path

\* lines 451-466: the finally block, then the return or the raise
RunFinally ==
    /\ pc = "run_finally"
    /\ envRun' = Restored(loc.old_bv_sdk_run, envRun)
    /\ envUrl' = Restored(loc.old_bv_orch_url, envUrl)
    /\ sysPath' = RestoredPath(sysPath, loc.added_path)
    /\ pc' = "done"
    /\ result' = IF loc.status = "return" THEN Ok("run", <<>>)
                 ELSE Raised("run", loc.err)
    /\ UNCHANGED <<fsVars, args, loc, pre, ncmds, faults>>
    /\ UNCHANGED log

(***************************************************************************)
(* The specification of the filesystem commands.                           *)
(***************************************************************************)
ProjectDescriptor(version, orch) ==
    [name |-> "proj", version |-> version, venv_dir |-> ".venv",
     orchestrator |-> orch,
     entrypoints |-> << [name |-> "main", command |-> <<"main", ":", "main">>,
                        workdir |-> "", default |-> TRUE] >>]

\* a descriptor that does not load: no entrypoint is the default
BrokenDescriptor ==
    [ProjectDescriptor(VerStr(0, 0, 0), None) EXCEPT
        !.entrypoints = << [name |-> "main", command |-> <<"main", ":", "main">>,
                           workdir |-> "", default |-> FALSE] >>]

\* a project with a second entrypoint, of a module in a package and with a
\* workdir
JobsDescriptor ==
    [ProjectDescriptor(VerStr(0, 0, 0), None) EXCEPT
        !.entrypoints = @ \o
            << [name |-> "job", command |-> <<"lib", ".", "util", ":", "run">>,
                workdir |-> "jobs", default |-> FALSE] >>]

Archive(version, eps, tag) == ArchiveOf("object", "proj", version, eps, tag)

EmptyFiles == [x \in {} |-> Archive(<<>>, "ok", "none")]

\* the versions a project of the initial states is at
InitVersions == {VerStr(0, 0, 0), VerStr(1, 1, 1) \o <<"-", "alpha">>}

\* the archives of the workspace and of the publish tree in an initial state
\* of a project at version v whose next patch version is n
InitFileSets(v, n) ==
    LET store == Resolve(<< <<"published">>, <<"proj">>, n >>)
        works == {EmptyFiles}
                 \cup {With(EmptyFiles, Resolve(CustomPkg), c) :
                          c \in {Archive(n, "ok", "given"), Archive(v, "ok", "given"),
                                 Archive(n, "empty", "given")}}
                 \cup {With(EmptyFiles, Resolve(CustomZip), Archive(n, "ok", "given"))}
        broken == {With(EmptyFiles, Resolve(CustomPkg), c) :
                      c \in {ArchiveOf("object", "other", n, "ok", "given"),
                             ArchiveOf("object", None, n, "ok", "given"),
                             ArchiveOf("unreadable", None, <<None>>, "ok", "given"),
                             ArchiveOf("list", None, <<None>>, "ok", "given")}
                            \cup {Archive(n, k, "given") :
                                     k \in {"unreadable", "list", "nonmapping",
                                            "noname", "nofunction"}}}
        olds == {EmptyFiles}
                \cup {With(EmptyFiles, store \o <<f>>, Archive(n, "ok", "old")) :
                         f \in {PkgFileName("proj", n), BaseName(CustomPkg)}}
    IN  IF v = VerStr(0, 0, 0)
        THEN {[x \in DOMAIN w \cup DOMAIN o |->
                  IF x \in DOMAIN w THEN w[x] ELSE o[x]] : w \in works, o \in olds}
             \cup broken
        ELSE {EmptyFiles}

FsInit ==
    /\ dirs = {}
    /\ \/ \* a directory without a project, empty or with the user's own files
          /\ descriptor = NoFile
          /\ \E c \in {"absent", "user"} :
                /\ scaffold = [f \in ScaffoldFiles |-> c]
                /\ venv \in IF c = "absent" THEN {"absent", "bare", "ready"}
                            ELSE {"absent"}
          /\ distDir = FALSE
          /\ files = EmptyFiles
       \/ \* a project
          /\ \E v \in InitVersions :
                /\ descriptor = <<ProjectDescriptor(v, "http://orchestrator")>>
                /\ files \in InitFileSets(v, bump_semver(v, "patch").v)
          /\ scaffold = [f \in ScaffoldFiles |-> "init"]
          /\ distDir = TRUE
          /\ venv \in {"absent", "ready"}
       \/ \* a project whose descriptor does not load
          /\ descriptor = <<BrokenDescriptor>>
          /\ scaffold = [f \in ScaffoldFiles |-> "init"]
          /\ distDir = TRUE
          /\ venv = "ready"
          /\ files = EmptyFiles
       \/ \* a project with two entrypoints
          /\ descriptor = <<JobsDescriptor>>
          /\ scaffold = [f \in ScaffoldFiles |-> "init"]
          /\ distDir = TRUE
          /\ venv \in {"absent", "bare", "ready"}
          /\ files = EmptyFiles

CmdInit ==
    /\ pc = "idle"
    /\ args = [cmd |-> "none"]
    /\ loc = [destination |-> <<>>]
    /\ result = NoResult
    /\ ncmds = MaxCmds
    /\ log = <<>>
    /\ faults = 0

\* the command has returned or raised; the next one starts from a fresh frame
Return ==
    /\ pc = "done"
    /\ pc' = "idle"
    /\ args' = [cmd |-> "none"]
    /\ loc' = [destination |-> <<>>]
    /\ result' = NoResult
    /\ pre' = Snapshot
    /\ UNCHANGED <<fsVars, procVars, ncmds, faults>>
    /\ UNCHANGED log

Init ==
    /\ FsInit
    /\ envRun = None /\ envUrl = None /\ sysPath = <<>>
    /\ pre = Snapshot
    /\ CmdInit

Next ==
    \/ InitStart \/ InitWrite \/ InitVenv \/ InitUnlink \/ InitReraise
    \/ PublishStart \/ PublishPersist \/ PublishBuild \/ PublishBuilding
    \/ PublishCheck \/ PublishUnlinkOld \/ PublishTransfer \/ PublishWriting
    \/ PublishReplace \/ PublishCleanup
    \/ BuildStart \/ BuildBuilding
    \/ Return

Spec == Init /\ [][Next]_vars

(***************************************************************************)
(* The specification of build_package alone, on the same workspaces.       *)
(***************************************************************************)
BuildNext == BuildStart \/ BuildBuilding \/ Return

SpecBuild == Init /\ [][BuildNext]_vars

(***************************************************************************)
(* The specification of sessions of builds and publishes of one project.   *)
(***************************************************************************)
\* number of commands of a session
MaxSeq == 2

\* a project at version 0.0.0 with its environment and no archive, before
\* cmds commands of which the I/O operations may fail MaxFaults - failed times
ProjectInit(cmds, failed) ==
    /\ descriptor = <<ProjectDescriptor(VerStr(0, 0, 0), "http://orchestrator")>>
    /\ files = EmptyFiles
    /\ scaffold = [f \in ScaffoldFiles |-> "init"]
    /\ distDir = TRUE
    /\ venv = "ready"
    /\ dirs = {}
    /\ envRun = None /\ envUrl = None /\ sysPath = <<>>
    /\ pre = Snapshot
    /\ pc = "idle"
    /\ args = [cmd |-> "none"]
    /\ loc = [destination |-> <<>>]
    /\ result = NoResult
    /\ ncmds = cmds
    /\ log = <<>>
    /\ faults = failed

\* one I/O operation of the session may fail
SeqInit == ProjectInit(MaxSeq, MaxFaults - 1)

SeqNext ==
    \/ PublishStart \/ PublishPersist \/ PublishBuild \/ PublishBuilding
    \/ PublishCheck \/ PublishUnlinkOld \/ PublishTransfer \/ PublishWriting
    \/ PublishReplace \/ PublishCleanup
    \/ BuildStart \/ BuildBuilding
    \/ Return

SpecSeq == SeqInit /\ [][SeqNext]_vars

(***************************************************************************)
(* The specification of the publish command of the command line.           *)
(***************************************************************************)
\* a mutant of CliUsageError: two of the three options pass
CliUsageError_three(major, minor, patch) == major /\ minor /\ patch

\* cli.py lines 117-118: more than one of --major/--minor/--patch is set
CliUsageError(major, minor, patch) ==
    Cardinality({i \in 1..3 : <<major, minor, patch>>[i]}) > 1

\* cli.py lines 121-127
CliBump(major, minor, patch) ==
    IF major THEN "major" ELSE IF minor THEN "minor" ELSE "patch"

\* cli.py lines 102-138: the publish command up to the call of
\* publish_package; a usage error is echoed and the command exits with 1
CliPublish ==
    \E package \in PackageArgs, major \in BOOLEAN, minor \in BOOLEAN,
       patch \in BOOLEAN, move \in BOOLEAN, overwrite \in BOOLEAN,
       dry_run \in BOOLEAN :
        IF CliUsageError(major, minor, patch)
        THEN /\ pc = "idle" /\ ncmds > 0
             /\ args' = [cmd |-> "cli publish", major |-> major,
                         minor |-> minor, patch |-> patch]
             /\ pc' = "done"
             /\ result' = [Raised("cli publish",
                                  "ERROR: Only one of --major/--minor/--patch may be set")
                           EXCEPT !.value = 1]
             /\ loc' = [destination |-> <<>>]
             /\ pre' = Snapshot
             /\ ncmds' = ncmds - 1
             /\ UNCHANGED <<fsVars, procVars, faults, log>>
        ELSE PublishCall([cmd |-> "publish", package_path |-> package,
                          publish_dir |-> << <<"published">> >>, move |-> move,
                          overwrite |-> overwrite,
                          bump |-> CliBump(major, minor, patch),
                          dry_run |-> dry_run,
                          major |-> major, minor |-> minor, patch |-> patch])

CliInit == ProjectInit(MaxCmds, 0)

CliNext ==
    \/ CliPublish \/ PublishPersist \/ PublishBuild \/ PublishBuilding
    \/ PublishCheck \/ PublishUnlinkOld \/ PublishTransfer \/ PublishWriting
    \/ PublishReplace \/ PublishCleanup
    \/ Return

SpecCli == CliInit /\ [][CliNext]_vars

(***************************************************************************)
(* The specification of run_project: a project and a process state.        *)
(***************************************************************************)
\* a project with a default entrypoint and two entrypoints whose command
\* does not name a module and a function
RunDescriptor(orch) ==
    [ProjectDescriptor(VerStr(0, 0, 0), orch) EXCEPT
        !.entrypoints = @ \o
            << [name |-> "other", command |-> <<"main">>, workdir |-> "",
                default |-> FALSE],
               [name |-> "half", command |-> <<"main", ":">>, workdir |-> "",
                default |-> FALSE] >>]

RunInit ==
    /\ \/ /\ descriptor \in {NoFile, <<BrokenDescriptor>>}
          /\ envRun = None /\ envUrl = "http://old"
          /\ sysPath = <<"/lib">>
       \/ /\ \E orch \in {None, "http://orchestrator"} :
                descriptor = <<RunDescriptor(orch)>>
          /\ envRun \in {None, "0"}
          /\ envUrl \in {None, "http://old"}
          /\ sysPath \in {<<"/lib">>, <<"/lib", ProjectRoot>>,
                          <<ProjectRoot, "/lib", ProjectRoot>>}
    /\ scaffold = [f \in ScaffoldFiles |-> "init"]
    /\ distDir = TRUE
    /\ venv = "ready"
    /\ files = EmptyFiles
    /\ dirs = {}
    /\ pre = Snapshot
    /\ CmdInit

RunNext ==
    \/ RunStart \/ RunEnter \/ RunImport \/ RunCall \/ RunFinally
    \/ Return

SpecRun == RunInit /\ [][RunNext]_vars

(***************************************************************************)
(* The specification of bump_semver: the function applied to version       *)
(* strings and parts.                                                      *)
(***************************************************************************)
\* version strings: every MAJOR.MINOR.PATCH of the model with and without a
\* prerelease and a build, and strings that are no versions
BumpVersions ==
    LET cores == {VerStr(a, b, c) : a \in 0..MaxVer, b \in 0..MaxVer, c \in 0..MaxVer}
        suffixes == {<<>>, <<"-", "alpha">>, <<"+", "b7">>,
                     <<"-", "alpha", ".", "1", "+", "b7", "-", "alpha">>}
    IN  {c \o x : c \in cores, x \in suffixes}
        \cup { <<>>, <<None>>, <<"1", ".", "2">>,
               <<"1", ".", "2", ".", "0", "x">>,
               <<"01", ".", "2", ".", "0">>,
               <<"v", "1", ".", "2", ".", "0">>,
               <<"1", ".", "2", ".", "0", "-">>,
               <<"1", ".", "2", ".", "0", "+">>,
               <<"1", ".", "2", ".", "0", "+", "b7", "+", "b7">>,
               <<"1", ".", "2", ".", "0", "\n">>,
               <<"1", ".", "2", ".", "0", "-", "alpha", "\n">>,
               <<"1", ".", "2", ".", "0", "\n", "\n">> }

BumpParts == Parts \cup {"minorr", ""}

\* a disk and a process that the functions under test do not read
PlainInit ==
    /\ descriptor = NoFile
    /\ scaffold = [f \in ScaffoldFiles |-> "absent"]
    /\ distDir = FALSE
    /\ venv = "absent"
    /\ files = EmptyFiles
    /\ dirs = {}
    /\ envRun = None /\ envUrl = None /\ sysPath = <<>>
    /\ pre = Snapshot
    /\ CmdInit

\* one call of bump_semver
BumpCall ==
    /\ pc = "idle" /\ ncmds > 0
    /\ \E version \in BumpVersions, part \in BumpParts :
        LET r == bump_semver(version, part)
        IN  /\ args' = [cmd |-> "bump", version |-> version, part |-> part]
            /\ result' = IF r.ok THEN Ok("bump", r.v) ELSE Raised("bump", r.err)
    /\ pc' = "done"
    /\ loc' = [destination |-> <<>>]
    /\ pre' = Snapshot
    /\ ncmds' = ncmds - 1
    /\ UNCHANGED <<fsVars, procVars, faults>>
    /\ UNCHANGED log

BumpNext == BumpCall \/ Return

SpecBump == PlainInit /\ [][BumpNext]_vars

(***************************************************************************)
(* The specification of the configuration model: ProjectConfig.validate,   *)
(* ProjectConfigLoader.load and validate_project applied to descriptors.   *)
(***************************************************************************)
Entry(name, command, workdir, default) ==
    [name |-> name, command |-> command, workdir |-> workdir, default |-> default]

\* the entrypoint lists of the descriptors
ConfigEntryLists ==
    LET main == <<"main", ":", "main">>
    IN  { <<>>,
          <<Entry("main", main, "", TRUE)>>,
          <<Entry("main", main, "", FALSE)>>,
          <<Entry("main", main, "", FALSE), Entry("other", main, "", FALSE)>>,
          <<Entry("main", main, "", TRUE), Entry("other", main, "", TRUE)>>,
          <<Entry("main", main, "", FALSE), Entry("other", main, "", TRUE)>>,
          <<Entry("", main, "", TRUE)>>,
          <<Entry("main", <<>>, "", TRUE)>>,
          <<Entry("", <<>>, "", FALSE)>>,
          <<Entry("main", main, "", TRUE), Entry("", main, "", TRUE)>>,
          <<Entry("", main, "", FALSE), Entry("other", <<>>, "", FALSE)>>,
          <<Entry("main", main, "jobs", TRUE)>>,
          <<Entry("main", main, "gone", TRUE)>>,
          <<Entry("main", main, "gone", FALSE), Entry("other", main, "gone", FALSE)>>,
          <<Entry("main", <<"lost", ":", "main">>, "", TRUE)>> }

\* the descriptors: the name and the version present, empty or missing
ConfigDescriptors ==
    { [name |-> n, version |-> v, entrypoints |-> eps, venv_dir |-> None,
       orchestrator |-> None] :
        n \in {"proj", "", None},
        v \in {VerStr(0, 0, 0), <<"1", ".", "2", ".", "0", "x">>, <<>>, <<None>>},
        eps \in ConfigEntryLists }

ConfigInit ==
    /\ descriptor \in {NoFile} \cup {<<d>> : d \in ConfigDescriptors}
    /\ scaffold \in {[f \in ScaffoldFiles |-> c] : c \in {"init", "absent"}}
    /\ distDir = TRUE
    /\ venv = "ready"
    /\ files = EmptyFiles
    /\ dirs = {}
    /\ envRun = None /\ envUrl = None /\ sysPath = <<>>
    /\ pre = Snapshot
    /\ CmdInit

LibReturn(r) ==
    /\ result' = r
    /\ pc' = "done"
    /\ loc' = [destination |-> <<>>]
    /\ pre' = Snapshot
    /\ ncmds' = ncmds - 1
    /\ UNCHANGED <<fsVars, procVars, faults>>

\* ProjectConfig.validate(project_root) of the config object with the fields
\* of the descriptor
ConfigValidate ==
    /\ pc = "idle" /\ ncmds > 0
    /\ descriptor # NoFile
    /\ descriptor[1].name # None /\ descriptor[1].version # <<None>>
    /\ \E project_root \in {None, "root"} :
        LET cfg == [name |-> descriptor[1].name, version |-> descriptor[1].version,
                    entrypoints |-> descriptor[1].entrypoints, venv_dir |-> ".venv"]
            errors == ValidateErrors(cfg, project_root)
        IN  /\ args' = [cmd |-> "config.validate", project_root |-> project_root,
                        cfg |-> cfg]
            /\ LibReturn([cmd |-> "config.validate", ok |-> errors = <<>>,
                          err |-> IF errors = <<>> THEN "" ELSE "ValueError",
                          value |-> errors])
    /\ UNCHANGED log

\* ProjectConfigLoader.load of the descriptor
ConfigLoad ==
    /\ pc = "idle" /\ ncmds > 0
    /\ LET l == Load(descriptor)
       IN  /\ args' = [cmd |-> "load"]
           /\ LibReturn([cmd |-> "load", ok |-> l.ok,
                         err |-> IF l.ok THEN "" ELSE "raised",
                         value |-> IF l.ok THEN <<l.cfg>> ELSE l.err])
    /\ UNCHANGED log

\* validate_project of the descriptor and the project root
ProjectValidate ==
    /\ pc = "idle" /\ ncmds > 0
    /\ args' = [cmd |-> "validate"]
    /\ LibReturn(Ok("validate", <<ValidateProject(descriptor, scaffold)>>))
    /\ UNCHANGED log

ConfigNext == ConfigValidate \/ ConfigLoad \/ ProjectValidate \/ Return

SpecConfig == ConfigInit /\ [][ConfigNext]_vars

(***************************************************************************)
(* The specification of VenvManager: ensure, install and freeze on an      *)
(* environment directory in each of its states.                            *)
(***************************************************************************)
\* lines 56-58 and 65: python_path().exists()
PythonExists(v) == v = "ready"

\* a mutant of Ensure: a missing environment is created without permission
Ensure_creates(v, create_if_missing) ==
    IF VenvExists(v) THEN "return" ELSE "create"

\* lines 30-37: what ensure does
Ensure(v, create_if_missing) ==
    IF VenvExists(v) THEN "return"
    ELSE IF ~create_if_missing THEN "raise"
    ELSE "create"

\* lines 42-47: the installer commands of install, in its order;
\* requirements is None, [] or a list of names, requirements_file None or a
\* path
InstallCommands(upgrade_pip, requirements_file, requirements) ==
    (IF upgrade_pip THEN <<"pip install --upgrade pip">> ELSE <<>>)
    \o (IF requirements_file # None THEN <<"pip install -r">> ELSE <<>>)
    \o (IF requirements \notin {None, "[]"} THEN <<"pip install">> ELSE <<>>)

\* the outputs of freeze: in the project root and in a directory of its own
LockFiles == { << <<"requirements", ".", "lock">> >>,
               << <<"locks">>, <<"requirements", ".", "lock">> >> }

VenvFail(cmd, err) ==
    /\ pc' = "done"
    /\ result' = Raised(cmd, err)

\* lines 19-27: the interpreter creates the environment, ensurepip and the
\* pip upgrade are to follow; a failed creation may leave the directory
VenvCreate ==
    /\ pc = "venv_create"
    /\ \/ /\ NoFault
          /\ venv' = "ready"
          /\ loc' = [loc EXCEPT !.pending = <<"ensurepip --upgrade",
                                             "pip install --upgrade pip">> \o @]
          /\ pc' = "venv_run"
          /\ UNCHANGED result
       \/ /\ Fault
          /\ \E left \in {venv, "bare"} : venv' = left
          /\ VenvFail(args.cmd, "CalledProcessError")
          /\ UNCHANGED loc
    /\ UNCHANGED <<descriptor, scaffold, distDir, files, dirs, procVars,
                   args, pre, ncmds, log>>

\* ensure(create_if_missing, ...)
VenvEnsure ==
    /\ pc = "idle" /\ ncmds > 0
    /\ \E create_if_missing \in BOOLEAN :
        LET todo == Ensure(venv, create_if_missing)
        IN  /\ args' = [cmd |-> "ensure", create_if_missing |-> create_if_missing]
            /\ loc' = [destination |-> <<>>, ran |-> <<>>, pending |-> <<>>]
            /\ CASE todo = "return" ->
                       pc' = "done" /\ result' = Ok("ensure", ".venv")
                 [] todo = "raise" ->
                       VenvFail("ensure",
                                "FileNotFoundError: Virtual environment not found")
                 [] OTHER -> pc' = "venv_create" /\ result' = NoResult
    /\ pre' = Snapshot
    /\ ncmds' = ncmds - 1
    /\ UNCHANGED <<fsVars, procVars, faults, log>>

\* install(requirements, requirements_file, upgrade_pip)
VenvInstall ==
    /\ pc = "idle" /\ ncmds > 0
    /\ \E upgrade_pip \in BOOLEAN, requirements_file \in {None, "requirements.txt"},
          requirements \in {None, "[]", "[requests]"} :
        LET todo == Ensure(venv, FALSE)
            pending == InstallCommands(upgrade_pip, requirements_file, requirements)
        IN  /\ args' = [cmd |-> "install", upgrade_pip |-> upgrade_pip,
                        requirements_file |-> requirements_file,
                        requirements |-> requirements]
            /\ loc' = [destination |-> <<>>, ran |-> <<>>, pending |-> pending]
            /\ CASE todo = "raise" ->
                       VenvFail("install",
                                "FileNotFoundError: Virtual environment not found")
                 [] todo = "create" -> pc' = "venv_create" /\ result' = NoResult
                 [] OTHER ->
                       IF pending = <<>>
                       THEN pc' = "done" /\ result' = Ok("install", <<>>)
                       ELSE pc' = "venv_run" /\ result' = NoResult
    /\ pre' = Snapshot
    /\ ncmds' = ncmds - 1
    /\ UNCHANGED <<fsVars, procVars, faults, log>>

\* lines 51-52 of freeze(output): the gate and output.parent.mkdir
VenvFreeze ==
    /\ pc = "idle" /\ ncmds > 0
    /\ \E output \in LockFiles :
       LET todo == Ensure(venv, FALSE)
       IN  /\ args' = [cmd |-> "freeze", output |-> output]
           /\ loc' = [destination |-> <<>>, ran |-> <<>>,
                      pending |-> <<"pip freeze">>]
           /\ CASE todo = "raise" ->
                      /\ VenvFail("freeze",
                                  "FileNotFoundError: Virtual environment not found")
                      /\ UNCHANGED dirs
                [] todo = "create" ->
                      pc' = "venv_create" /\ result' = NoResult /\ UNCHANGED dirs
                [] OTHER ->
                      /\ dirs' = IF Len(output) = 1 THEN dirs
                                 ELSE dirs \cup {Resolve(SubSeq(output, 1,
                                                               Len(output) - 1))}
                      /\ pc' = "venv_run" /\ result' = NoResult
    /\ pre' = Snapshot
    /\ ncmds' = ncmds - 1
    /\ UNCHANGED <<descriptor, scaffold, distDir, venv, files, procVars,
                   faults, log>>

\* lines 63-72: _run of the next installer command; without the interpreter
\* it raises, else the command runs and may fail (check=True)
VenvRun ==
    /\ pc = "venv_run"
    /\ IF ~PythonExists(venv)
       THEN /\ VenvFail(args.cmd,
                        "FileNotFoundError: Python interpreter not found in venv")
            /\ NoFault
            /\ UNCHANGED loc
       ELSE \/ /\ NoFault
               /\ loc' = [loc EXCEPT !.ran = Append(@, Head(loc.pending)),
                                     !.pending = Tail(@)]
               /\ IF Tail(loc.pending) # <<>>
                  THEN pc' = "venv_run" /\ UNCHANGED result
                  ELSE IF args.cmd = "freeze"
                  THEN pc' = "venv_write" /\ UNCHANGED result
                  ELSE pc' = "done"
                       /\ result' = Ok(args.cmd, IF args.cmd = "ensure"
                                                 THEN ".venv" ELSE <<>>)
            \/ /\ Fault
               /\ VenvFail(args.cmd, "CalledProcessError")
               /\ UNCHANGED loc
    /\ UNCHANGED <<fsVars, procVars, args, pre, ncmds, log>>

\* line 54 of freeze: output.write_text
VenvWrite ==
    /\ pc = "venv_write"
    /\ \/ /\ NoFault
          /\ files' = With(files, Resolve(args.output),
                           [tag |-> "lock", text |-> "pip freeze"])
          /\ pc' = "done" /\ result' = Ok("freeze", <<>>)
       \/ /\ Fault
          /\ VenvFail("freeze", "OSError: write")
          /\ UNCHANGED files
    /\ UNCHANGED <<descriptor, scaffold, distDir, venv, dirs, procVars,
                   args, loc, pre, ncmds, log>>

\* a project directory whose environment is in any of its states
VenvInit ==
    /\ descriptor = NoFile
    /\ scaffold = [f \in ScaffoldFiles |-> "absent"]
    /\ distDir = FALSE
    /\ venv \in {"absent", "bare", "nopython", "ready"}
    /\ files = EmptyFiles
    /\ dirs = {}
    /\ envRun = None /\ envUrl = None /\ sysPath = <<>>
    /\ pre = Snapshot
    /\ CmdInit

VenvNext ==
    \/ VenvEnsure \/ VenvInstall \/ VenvFreeze
    \/ VenvCreate \/ VenvRun \/ VenvWrite
    \/ Return

SpecVenv == VenvInit /\ [][VenvNext]_vars

(***************************************************************************)
(* Properties.                                                             *)
(***************************************************************************)
FileExists(f) ==
    IF f = ConfigFile THEN descriptor # NoFile ELSE scaffold[f] # "absent"

\* init_project raised from inside its try block and has rolled back
InitRolledBack ==
    /\ pc = "done" /\ result.cmd = "init"
    /\ result.err \in {"OSError", "CalledProcessError"}

\* C1 as stated: after an init_project that raised in a write or in the
\* environment creation, no scaffold file it wrote exists, the environment
\* directory exists only if it existed before, and the error is the
\* original one.
C1_RollbackComplete ==
    InitRolledBack =>
        /\ \A f \in loc.wrote : ~FileExists(f)
        /\ venv # "absent" => pre.disk.venv # "absent"
        /\ result.err = loc.err

\* C1, amended: after an init_project that raised in a write or in the
\* environment creation, no scaffold file it wrote exists except those whose
\* unlink raised, the environment directory exists only if it existed before
\* or its rmtree raised, and the error is the original one.
C1_RollbackBestEffort ==
    InitRolledBack =>
        /\ \A f \in loc.wrote \ loc.unlinkFailed : ~FileExists(f)
        /\ venv # "absent" => (pre.disk.venv # "absent" \/ loc.rmtreeFailed)
        /\ result.err = loc.err
        /\ loc.created_files = <<>>

C1_Witness ==
    /\ InitRolledBack
    /\ result.err = "CalledProcessError"
    /\ Cardinality(loc.wrote) = Len(InitFiles)
    /\ loc.unlinkFailed = {}
    /\ pre.disk.venv = "absent"
    /\ \A f \in loc.wrote : ~FileExists(f)

\* the version bump_semver(old_version, bump) is to give
C2_Expected ==
    LET old == pre.disk.descriptor[1].version
        major == NumVal(old[1])
        minor == NumVal(old[3])
        patch == NumVal(old[5])
    IN  CASE args.bump = "major" -> <<NumStr(major + 1), ".", "0", ".", "0">>
          [] args.bump = "minor" -> <<old[1], ".", NumStr(minor + 1), ".", "0">>
          [] OTHER -> <<old[1], ".", old[3], ".", NumStr(patch + 1)>>

\* C2: when publish_package decides on the build and while build_package
\* runs, the version on disk, the version publish holds and the version the
\* build has loaded are the bumped version.
C2_PersistBeforeBuild ==
    /\ pc \in {"pub_build", "pub_building"} =>
          /\ descriptor # NoFile
          /\ descriptor[1].version = C2_Expected
          /\ loc.cfg.version = C2_Expected
    /\ pc = "pub_building" => loc.buildCfg[1].version = C2_Expected

C2_Witness ==
    /\ pc = "pub_building"
    /\ args.bump = "minor"
    /\ loc.buildCfg[1].version = VerStr(0, 1, 0)

\* C3: after run_project, however it ended, BV_SDK_RUN, BV_ORCHESTRATOR_URL
\* and sys.path hold their values of before the call.
C3_Restored ==
    (pc = "done" /\ result.cmd = "run") =>
        /\ envRun = pre.envRun
        /\ envUrl = pre.envUrl
        /\ sysPath = pre.sysPath

C3_Witness ==
    /\ pc = "done" /\ result.cmd = "run"
    /\ result.err = "Exception in entrypoint"
    /\ loc.bodyRan /\ loc.added_path
    /\ pre.envRun = None /\ pre.envUrl = None
    /\ descriptor[1].orchestrator # None
    /\ envRun = None /\ envUrl = None /\ sysPath = pre.sysPath

IsTmpPath(p) == Suffix(BaseName(p)) = TmpExt

\* C4 as stated: a path that is not a temporary sibling path never holds a
\* partially written archive.
C4_DestinationNeverPartial ==
    \A p \in DOMAIN files : ~IsTmpPath(p) => files[p].whole

\* C5 as stated: a publish_package that is not a dry run and fails leaves the
\* descriptor as it was before the call.
C5_FailedPublishKeepsDescriptor ==
    (pc = "done" /\ result.cmd = "publish" /\ ~args.dry_run /\ ~result.ok) =>
        descriptor = pre.disk.descriptor

\* C6: a publish_package that reaches the conflict test with an existing
\* destination raises the conflict error and leaves the destination as it
\* was if overwrite is not set; if it is set it does not raise the conflict
\* error and, unless an I/O operation of the placement fails, it returns
\* with the published archive at the destination.
C6_Conflict ==
    (/\ pc = "done" /\ result.cmd = "publish"
     /\ loc.destination # <<>>
     /\ loc.destination \in DOMAIN pre.disk.files) =>
        IF ~args.overwrite
        THEN /\ ~result.ok /\ result.err = "FileExistsError"
             /\ loc.destination \in DOMAIN files
             /\ files[loc.destination] = pre.disk.files[loc.destination]
        ELSE /\ result.err # "FileExistsError"
             /\ ~loc.fault =>
                   /\ result.ok
                   /\ loc.destination \in DOMAIN files
                   /\ files[loc.destination] = loc.src[1]
                   /\ files[loc.destination].tag # "old"

C6_Witness ==
    /\ pc = "done" /\ result.cmd = "publish" /\ result.ok
    /\ args.overwrite /\ args.move
    /\ loc.destination \in DOMAIN pre.disk.files
    /\ pre.disk.files[loc.destination].tag = "old"
    /\ files[loc.destination].tag = "built"

\* C7: init_project in a directory whose descriptor exists raises the
\* conflict error and changes nothing: it never gets past its first test.
C7_InitConflict ==
    /\ (pc = "done" /\ result.cmd = "init" /\ pre.disk.descriptor # NoFile) =>
          /\ ~result.ok /\ result.err = "FileExistsError"
          /\ Disk = pre.disk
    /\ pc \in {"init_write", "init_venv", "init_rollback"} =>
          pre.disk.descriptor = NoFile

C7_Witness ==
    /\ pc = "done" /\ result.cmd = "init"
    /\ result.err = "FileExistsError"
    /\ \A f \in ScaffoldFiles : scaffold[f] = "init"
    /\ Disk = pre.disk

\* C8: a dry run of publish_package changes nothing on disk, and no step of
\* publish_package after the bump runs in a dry run.
C8_DryRunNoEffect ==
    /\ (pc = "done" /\ result.cmd = "publish" /\ args.dry_run) => Disk = pre.disk
    /\ (pc # "idle" /\ pc # "done" /\ args.cmd = "publish") => ~args.dry_run

C8_Witness ==
    /\ pc = "done" /\ result.cmd = "publish" /\ args.dry_run /\ result.ok
    /\ args.package_path = <<>>
    /\ dirs = {} /\ venv = "ready"

\* <publish_dir>/<name>/<next_version>/<file>
C9_Path(file) ==
    LET name == pre.disk.descriptor[1].name
    IN  Cwd \o args.publish_dir \o << <<name>>, C2_Expected, file >>

\* <name>-<next_version>.bvpackage
C9_DefaultFile ==
    <<pre.disk.descriptor[1].name, "-">> \o C2_Expected \o <<".", "bvpackage">>

\* C9 as stated: a dry run returns
\* <publish_dir>/<name>/<next_version>/<name>-<next_version>.bvpackage,
\* whether an archive is supplied or not.
C9_DryRunDefaultPath ==
    (pc = "done" /\ result.cmd = "publish" /\ args.dry_run /\ result.ok) =>
        result.value = C9_Path(C9_DefaultFile)

\* C9, amended: a dry run returns <publish_dir>/<name>/<next_version>/<file>
\* where <file> is <name>-<next_version>.bvpackage if no archive is supplied
\* and else the supplied archive's file name with the suffix .bvpackage; and
\* a publish that is no dry run, with no archive or an existing archive
\* supplied, computes that same path as its destination.
C9_DryRunPath ==
    LET file == IF args.package_path = <<>> THEN C9_DefaultFile
                ELSE WithSuffix(BaseName(args.package_path), <<".", "bvpackage">>)
    IN  /\ (pc = "done" /\ result.cmd = "publish" /\ args.dry_run /\ result.ok) =>
              result.value = C9_Path(file)
        /\ (/\ pc = "done" /\ result.cmd = "publish" /\ ~args.dry_run
            /\ loc.destination # <<>>
            /\ (args.package_path = <<>>
                \/ Resolve(args.package_path) \in DOMAIN pre.disk.files)) =>
              loc.destination = C9_Path(file)

C9_Witness ==
    /\ pc = "done" /\ result.cmd = "publish" /\ args.dry_run /\ result.ok
    /\ args.package_path = <<>> /\ args.bump = "minor"
    /\ result.value = Cwd \o << <<"published">>, <<"proj">>, VerStr(0, 1, 0),
                                <<"proj", "-", "0", ".", "1", ".", "0", ".",
                                  "bvpackage">> >>

\* run_project got as far as the call policy with a signature
RunReachedPolicy ==
    /\ pc = "done" /\ result.cmd = "run"
    /\ "params" \in DOMAIN loc
    /\ loc.hasSignature

\* C10 as stated: with an input file supplied (null, {} or a non-empty
\* object), an entrypoint without parameters fails with "does not accept
\* input" and one with two required parameters fails with a TypeError, the
\* body not run; without input a one-parameter entrypoint is called with {}.
C10_ArityOutcomes ==
    RunReachedPolicy =>
        /\ (args.input # "none" /\ loc.params = <<>>) =>
              /\ result.err = "TypeError: Entrypoint does not accept input"
              /\ ~loc.bodyRan
        /\ (args.input # "none" /\ Len(Required(loc.params)) = 2) =>
              /\ ~result.ok /\ ~loc.bodyRan
        /\ (args.input = "none" /\ Len(loc.params) = 1
            /\ loc.params[1].kind = "POSITIONAL_OR_KEYWORD") =>
              /\ loc.bodyRan
              /\ loc.called = <<[nargs |-> 1, arg |-> "empty"]>>

\* the elements of a sequence
Range(s) == {s[i] : i \in 1..Len(s)}

\* C11: the archive builder runs only with a project that validates and an
\* environment whose bin directory exists; a build_package on a project that
\* does not validate raises the validation error and changes nothing, one
\* without the environment raises the environment-missing error and changes
\* nothing; and no step of a build or a publish changes the environment
\* directory.
C11_BuildGate ==
    /\ pc \in {"bld_building", "pub_building"} =>
          /\ ValidateProject(descriptor, scaffold).ok
          /\ venv = "ready"
    /\ (pc = "done" /\ result.cmd = "build") =>
          IF ~ValidateProject(pre.disk.descriptor, pre.disk.scaffold).ok
          THEN result.err = "ValueError: Validation failed" /\ Disk = pre.disk
          ELSE pre.disk.venv # "ready" =>
                  /\ result.err = "FileNotFoundError: Virtual environment not found"
                  /\ Disk = pre.disk
    /\ args.cmd \in {"build", "publish"} => venv = pre.disk.venv

C11_Witness ==
    /\ pc = "done" /\ result.cmd = "build"
    /\ ValidateProject(pre.disk.descriptor, pre.disk.scaffold).ok
    /\ pre.disk.venv = "bare"
    /\ result.err = "FileNotFoundError: Virtual environment not found"
    /\ venv = "bare"

\* the source paths the descriptor and the include list name, as a set
C12_SourceSet ==
    LET eps == loc.buildCfg[1].entrypoints
    IN  FixedSources
        \cup {ModuleFile(ModuleOf(eps[i].command)) : i \in 1..Len(eps)}
        \cup {SourcePath(eps[i].workdir) : i \in {j \in 1..Len(eps) : eps[j].workdir # ""}}
        \cup Range(args.include)

\* C12: the sources build_package hands to the builder are the scaffold
\* files, the descriptor, every entrypoint's module file and workdir and the
\* includes, each once, in ascending order of their posix text; every include
\* list with the same elements, in any order and with any repetition, gives
\* the same sequence.
C12_SourcesDeterministic ==
    pc = "bld_building" =>
        /\ Range(loc.sources) = C12_SourceSet
        /\ \A i \in 1..(Len(loc.sources) - 1) :
              StrLess(AsPosix(loc.sources[i]), AsPosix(loc.sources[i + 1]))
        /\ \A other \in IncludeLists :
              Range(other) = Range(args.include) =>
                  BuildSources(loc.buildCfg[1], other) = loc.sources

C12_Witness ==
    /\ pc = "bld_building"
    /\ args.include = << << <<"extra", ".", "txt">> >>, << <<"README", ".", "md">> >> >>
    /\ Len(loc.buildCfg[1].entrypoints) = 2
    /\ loc.sources = << << <<"README", ".", "md">> >>,
                        << <<"bindings", ".", "json">> >>,
                        << <<"bvproject", ".", "yaml">> >>,
                        << <<"entry", "-", "points", ".", "json">> >>,
                        << <<"extra", ".", "txt">> >>,
                        << <<"jobs">> >>,
                        << <<"lib">>, <<"util", ".", "py">> >>,
                        << <<"main", ".", "py">> >>,
                        << <<"pyproject", ".", "toml">> >> >>

\* the strict grammar MAJOR.MINOR.PATCH[-prerelease][+build]: the whole
\* string is the version
C14_Grammar(v) == v # <<None>> /\ SemverMatch(v) /\ v[Len(v)] # "\n"

\* C14 as stated: bump_semver of a string of the grammar and a part of
\* major, minor, patch returns the bumped MAJOR.MINOR.PATCH without a
\* suffix; a string that is not of the grammar fails with the version error,
\* and a part that is none of the three fails with the part error.
C14_BumpResult ==
    (pc = "done" /\ result.cmd = "bump") =>
        LET v == args.version
        IN  IF ~C14_Grammar(v)
            THEN ~result.ok /\ result.err = "Invalid SemVer"
            ELSE CASE args.part = "major" ->
                        /\ result.ok
                        /\ result.value = <<NumStr(NumVal(v[1]) + 1), ".", "0", ".", "0">>
                   [] args.part = "minor" ->
                        /\ result.ok
                        /\ result.value = <<v[1], ".", NumStr(NumVal(v[3]) + 1), ".", "0">>
                   [] args.part = "patch" ->
                        /\ result.ok
                        /\ result.value = <<v[1], ".", v[3], ".", NumStr(NumVal(v[5]) + 1)>>
                   [] OTHER ->
                        ~result.ok /\ result.err = "part must be one of"

\* C13: ProjectConfig.validate passes only with exactly one default
\* entrypoint; a config whose entries are all named and have a command fails
\* with "one entrypoint must be marked default" if none is the default and
\* with "only one entrypoint may be marked default" if several are, and any
\* config with none or several fails; a config that load returns has exactly
\* one default entrypoint, which the selection of run_project without an
\* entry name finds.
C13_SingleDefault ==
    /\ (pc = "done" /\ result.cmd = "config.validate") =>
          LET eps == args.cfg.entrypoints
              n == DefaultCount(eps)
              sound == \A i \in 1..Len(eps) : ~EntryBad(eps[i])
              zero == "one entrypoint must be marked default"
              many == "only one entrypoint may be marked default"
          IN  /\ result.ok => n = 1
              /\ n # 1 => ~result.ok
              /\ (eps # <<>> /\ sound /\ n = 0) =>
                    zero \in Range(result.value) /\ many \notin Range(result.value)
              /\ (sound /\ n > 1) =>
                    many \in Range(result.value) /\ zero \notin Range(result.value)
    /\ (pc = "done" /\ result.cmd = "load" /\ result.ok) =>
          /\ DefaultCount(result.value[1].entrypoints) = 1
          /\ SelectEntry(result.value[1], None) # <<>>
          /\ SelectEntry(result.value[1], None)[1].default

C13_Witness ==
    /\ pc = "done" /\ result.cmd = "config.validate"
    /\ args.cfg.name = "proj" /\ args.cfg.version = VerStr(0, 0, 0)
    /\ DefaultCount(args.cfg.entrypoints) = 2
    /\ result.value = <<"only one entrypoint may be marked default">>

\* the messages of the rules a config violates
C16_Violations ==
    LET cfg == args.cfg
        eps == cfg.entrypoints
    IN  (IF cfg.name = "" THEN {"project.name is required"} ELSE {})
        \cup (IF cfg.version = <<>> THEN {"project.version is required"}
              ELSE IF ~SemverMatch(cfg.version)
                   THEN {"project.version must be SemVer"} ELSE {})
        \cup (IF eps = <<>>
              THEN {"project.entrypoints must include at least one entrypoint"}
              ELSE {})
        \cup {"entrypoint 'name' is required" : i \in {j \in 1..Len(eps) : eps[j].name = ""}}
        \cup {"entrypoint is missing 'command'" :
                 i \in {j \in 1..Len(eps) : eps[j].command = <<>>}}
        \cup (IF eps # <<>> /\ DefaultCount(eps) = 0
              THEN {"one entrypoint must be marked default"} ELSE {})
        \cup (IF DefaultCount(eps) > 1
              THEN {"only one entrypoint may be marked default"} ELSE {})

\* C16 as stated: the failure ProjectConfig.validate raises carries the
\* message of every rule the config violates.
C16_Aggregated ==
    (pc = "done" /\ result.cmd = "config.validate") =>
        C16_Violations \subseteq Range(result.value)

\* C17: validate_project returns a result whose ok tells that it has no
\* error; for a descriptor that is absent or does not load the result has
\* one error and no config, and the registry was not called; for one that
\* loads it has the config, and the registry was called and its failure is
\* among the errors.
C17_ValidateResult ==
    (pc = "done" /\ result.cmd = "validate") =>
        LET r == result.value[1]
            l == Load(descriptor)
        IN  /\ result.ok
            /\ r.ok = (r.errors = <<>>)
            /\ IF descriptor = NoFile \/ ~l.ok
               THEN Len(r.errors) = 1 /\ r.config = <<>> /\ ~r.registry
               ELSE /\ r.config = <<l.cfg>>
                    /\ r.registry
                    /\ RegistryErrors(l.cfg, scaffold) # <<>> =>
                          "Entrypoints invalid" \in Range(r.errors)

C17_Witness ==
    /\ pc = "done" /\ result.cmd = "validate"
    /\ descriptor # NoFile /\ ~Load(descriptor).ok
    /\ scaffold["main.py"] = "absent"
    /\ result.value[1].errors = <<"Invalid config">>

\* the archive is what C15 says _validate_package_file accepts
C15_Acceptable(c, expected_name, expected_version) ==
    /\ c.whole /\ c.manifest # "unreadable" /\ c.eps.json # "unreadable"
    /\ c.manifest = "object"
    /\ c.name = expected_name /\ c.version = expected_version
    /\ c.eps.json = "object"
    /\ c.eps.entries # <<>>
    /\ \A i \in 1..Len(c.eps.entries) :
          /\ c.eps.entries[i].mapping
          /\ c.eps.entries[i].name # "" /\ c.eps.entries[i].function # ""

\* the path lies under the directory
IsUnder(p, dir) == Len(p) > Len(dir) /\ SubSeq(p, 1, Len(dir)) = dir

\* C15: publish_package gets past the integrity check exactly with an
\* archive whose two members can be read, whose manifest has the expected
\* name and version and whose entry-point list is not empty and has only
\* mappings with a name and a function; when the check rejects, publish
\* fails and the publish directory is as it was.
C15_IntegrityCheck ==
    (/\ pc = "done" /\ result.cmd = "publish" /\ ~args.dry_run
     /\ "checked" \in DOMAIN loc /\ loc.checked # <<>>) =>
        LET accepted == C15_Acceptable(loc.checked[1], loc.cfg.name, loc.cfg.version)
            store == Resolve(args.publish_dir)
        IN  /\ accepted <=> loc.destination # <<>>
            /\ ~accepted =>
                  /\ ~result.ok
                  /\ dirs = pre.disk.dirs
                  /\ \A p \in DOMAIN files :
                        IsUnder(p, store) =>
                            p \in DOMAIN pre.disk.files /\ files[p] = pre.disk.files[p]
            /\ loc.cfg.version = C2_Expected

C15_Witness ==
    /\ pc = "done" /\ result.cmd = "publish"
    /\ "checked" \in DOMAIN loc /\ loc.checked # <<>>
    /\ loc.checked[1].eps.entries = <<>>
    /\ loc.checked[1].eps.json = "object"
    /\ loc.checked[1].version = loc.cfg.version
    /\ result.err = "ValueError: entry-points.json missing or empty"
    /\ dirs = {}

\* C18 as stated: after an init_project that failed and rolled back, every
\* file of the project root that existed before the call is there with the
\* content it had.
C18_RollbackKeepsUserFiles ==
    InitRolledBack =>
        \A f \in ScaffoldFiles :
            pre.disk.scaffold[f] = "user" => scaffold[f] = "user"

\* C19 as stated: after a publish_package with overwrite whose destination
\* existed and whose move or copy (or the rename that ends it) failed, the
\* destination holds the artifact it held before.
C19_OverwriteKeepsOld ==
    (/\ pc = "done" /\ result.cmd = "publish" /\ args.overwrite
     /\ "destExisted" \in DOMAIN loc /\ loc.destExisted
     /\ result.err \in {"OSError: transfer", "OSError: replace"}) =>
        /\ loc.destination \in DOMAIN files
        /\ files[loc.destination] = pre.disk.files[loc.destination]

\* C20 as stated: once publish_package has written the bumped version, the
\* descriptor on disk is the descriptor of before the call with the new
\* version and no other difference.
C20_OnlyVersionChanges ==
    pc = "pub_build" =>
        descriptor = <<[pre.disk.descriptor[1] EXCEPT !.version = C2_Expected]>>

\* the required parameters of the signature are several and all of them
\* positional-only
C21_Ambiguous(params) ==
    LET required == Required(params)
    IN  /\ Len(required) > 1
        /\ \A i \in 1..Len(required) : required[i].kind = "POSITIONAL_ONLY"

\* C21 as stated: with an input file that holds an object (empty or not), a
\* callable without parameters fails with "does not accept input"; otherwise
\* one with several required parameters, all positional-only, fails with the
\* ambiguity error; otherwise the callable is called once, with the object as
\* its one argument.
C21_InputBinding ==
    (RunReachedPolicy /\ args.input \in {"empty", "object"}) =>
        IF loc.params = <<>>
        THEN /\ result.err = "TypeError: Entrypoint does not accept input"
             /\ loc.called = <<>>
        ELSE IF C21_Ambiguous(loc.params)
        THEN /\ result.err = "TypeError: Entrypoint requires multiple positional arguments"
             /\ loc.called = <<>>
        ELSE loc.called = <<[nargs |-> 1, arg |-> args.input]>>

\* C22: without an input file, a callable without parameters is called with
\* no argument; one with at most one required parameter and at least one
\* parameter is called once with an empty object; every other signature
\* fails with the "0 args or exactly 1" error and the callable is not called.
C22_NoInputBinding ==
    (RunReachedPolicy /\ args.input = "none") =>
        IF loc.params = <<>>
        THEN loc.called = <<[nargs |-> 0, arg |-> "no argument"]>>
        ELSE IF Len(Required(loc.params)) <= 1
        THEN loc.called = <<[nargs |-> 1, arg |-> "empty"]>>
        ELSE /\ result.err =
                  "TypeError: Entrypoint signature must accept 0 args or exactly 1 argument"
             /\ loc.called = <<>>
             /\ ~loc.bodyRan

C22_Witness ==
    /\ RunReachedPolicy /\ args.input = "none"
    /\ Len(Required(loc.params)) = 2
    /\ result.err =
          "TypeError: Entrypoint signature must accept 0 args or exactly 1 argument"
    /\ loc.called = <<>>

\* a publish has ended that was given the path of an archive build_package
\* wrote from the version the descriptor had when the publish started, with
\* permission to overwrite, in a session without a failing I/O operation
C23_PublishOfBuilt ==
    /\ pc = "done" /\ args.cmd = "publish" /\ ~args.dry_run
    /\ args.overwrite
    /\ faults = MaxFaults - 1
    /\ args.package_path # <<>>
    /\ Resolve(args.package_path) \in DOMAIN pre.disk.files
    /\ LET c == pre.disk.files[Resolve(args.package_path)]
       IN  /\ c.tag = "built"
           /\ c.name = pre.disk.descriptor[1].name
           /\ c.version = pre.disk.descriptor[1].version

\* C23 as stated: the integrity check of a supplied archive expects the
\* bumped version, and a publish of the archive that build_package made from
\* the descriptor's current version succeeds.
C23_BuildThenPublish ==
    /\ (pc = "done" /\ args.cmd = "publish" /\ loc.destination # <<>>) =>
          loc.checked[1].version =
              bump_semver(pre.disk.descriptor[1].version, args.bump).v
    /\ C23_PublishOfBuilt => result.ok

\* the precedence of two versions: a is lower than b (numbers first; with
\* equal numbers a version with a prerelease is lower than one without)
C24_Lower(a, b) ==
    LET x == <<NumVal(a[1]), NumVal(a[3]), NumVal(a[5]), IF Len(a) > 5 THEN 0 ELSE 1>>
        y == <<NumVal(b[1]), NumVal(b[3]), NumVal(b[5]), IF Len(b) > 5 THEN 0 ELSE 1>>
    IN  \E i \in 1..4 : x[i] < y[i] /\ \A j \in 1..(i - 1) : x[j] = y[j]

\* a publish has ended
C24_Published == pc = "done" /\ args.cmd = "publish"

C25_EnvironmentGate ==
    /\ (pc = "done" /\ result.cmd = "ensure" /\ VenvExists(pre.disk.venv)) =>
          result.ok /\ result.value = ".venv" /\ Disk = pre.disk
    /\ (args.cmd = "ensure" /\ ~args.create_if_missing
        /\ ~VenvExists(pre.disk.venv)) =>
          /\ pc = "done"
          /\ result.err = "FileNotFoundError: Virtual environment not found"
          /\ Disk = pre.disk
    /\ args.cmd \in {"install", "freeze"} =>
          /\ pc # "venv_create"
          /\ venv = pre.disk.venv
          /\ ~VenvExists(pre.disk.venv) =>
                /\ pc = "done"
                /\ result.err = "FileNotFoundError: Virtual environment not found"
                /\ loc.ran = <<>>
                /\ Disk = pre.disk

C25_Witness ==
    /\ pc = "done" /\ result.cmd = "freeze"
    /\ pre.disk.venv = "bare"
    /\ result.err = "FileNotFoundError: Virtual environment not found"
    /\ loc.ran = <<>>
    /\ Disk = pre.disk

\* C26 as stated: exists is true exactly when the interpreter of the
\* environment is present, and an install or a freeze on an environment
\* that ensure found to exist does not fail with "interpreter not found".
C26_ExistsMeansInterpreter ==
    /\ VenvExists(venv) <=> PythonExists(venv)
    /\ (pc = "done" /\ result.cmd \in {"install", "freeze"}
        /\ VenvExists(pre.disk.venv)) =>
          result.err # "FileNotFoundError: Python interpreter not found in venv"

\* C27: the publish command with more than one of --major, --minor and
\* --patch ends at once with the usage error and exit status 1, without a
\* call of publish_package and with nothing changed; with none of them
\* publish_package is called with "patch", with one of them with that part.
C27_BumpSelection ==
    "major" \in DOMAIN args =>
        LET set == {i \in 1..3 : <<args.major, args.minor, args.patch>>[i]}
        IN  IF Cardinality(set) > 1
            THEN /\ pc = "done"
                 /\ args.cmd = "cli publish"
                 /\ result.err = "ERROR: Only one of --major/--minor/--patch may be set"
                 /\ result.value = 1
                 /\ Disk = pre.disk
            ELSE /\ args.cmd = "publish"
                 /\ args.bump = IF set = {} THEN "patch"
                                ELSE <<"major", "minor", "patch">>[CHOOSE i \in set : TRUE]

C27_Witness ==
    /\ pc = "done" /\ args.cmd = "cli publish"
    /\ args.major /\ args.patch /\ ~args.minor
    /\ result.value = 1
    /\ Disk = pre.disk

=============================================================================
